---- MODULE Spec2Model ----
(***************************************************************************)
(* Model of the glTF loading pipeline of mapray-js.                         *)
(*                                                                         *)
(* Two loaders share one coordination scheme:                              *)
(*   - the callback loader: glTFLoader (src/mapray/gltf/glTFLoader.js)     *)
(*     with its Context (finish callback),                                 *)
(*   - the promise loader: Tool.load / Context.load (Promise of Content),  *)
(*     consumed by ModelEntity._onLoadModel.                               *)
(* JavaScript runs every handler to completion: the constructor / load()   *)
(* call is followed, position by position, through pc; fetch completions   *)
(* are delivered only when no handler is running.                          *)
(***************************************************************************)
EXTENDS Integers, Sequences, FiniteSets, TLC

\* ------------------------------------------------------------------------
\* Bounds of the model
\* ------------------------------------------------------------------------
MaxScenes   == 1      \* scenes arrays have 0..MaxScenes elements
NumBuffers  == 2      \* buffer indices 0..NumBuffers-1
NumImages   == 2      \* image indices 0..NumImages-1
NumTextures == 3      \* texture objects 0..NumTextures-1
MaxTexInfos == 2      \* TextureInfo instances created during one load
MaxAccessors == 1     \* Accessor instances registered during one load
MaxAttribAccessors == 2  \* attribute Accessors of the entry of EntrySpec
MaxIndexAccessors == 1   \* index Accessors of the entry of EntrySpec
MaxBuilderNodes == 3     \* nodes of the tree of BuilderSpec
NumBuilderTexInfos == 3  \* TextureInfo instances of the asset of BuilderSpec

BufferIdx  == 0..(NumBuffers - 1)
ImageIdx   == 0..(NumImages - 1)
TextureIdx == 0..(NumTextures - 1)

\* ------------------------------------------------------------------------
\* JavaScript values
\* ------------------------------------------------------------------------
\* undefined / a number, for optional numeric fields
Undefined == <<>>
Num(i)    == <<i>>
IsNumber(x) == x # Undefined
Val(x)    == x[1]

\* ascending sequence of the elements of a finite set of integers: the order
\* in which for-of visits the defined slots of a sparse array
RECURSIVE AscSeq(_)
AscSeq(S) ==
    IF S = {} THEN <<>>
    ELSE LET m == CHOOSE x \in S : \A y \in S : x <= y
         IN  <<m>> \o AscSeq(S \ {m})

\* ------------------------------------------------------------------------
\* The asset (gjson) and the options
\* ------------------------------------------------------------------------
\* asset.version strings offered to the loaders, as character sequences;
\* a missing version is what RegExp.exec makes of undefined
Version10      == <<"1", ".", "0">>
Version20      == <<"2", ".", "0">>
VersionNoMinor == <<"2">>
VersionMissing == <<"u", "n", "d", "e", "f", "i", "n", "e", "d">>
Versions       == {Version10, Version20, VersionNoMinor, VersionMissing}

Digits == {"0", "1", "2", "3", "4", "5", "6", "7", "8", "9"}
DigitVal(c) ==
    CASE c = "0" -> 0 [] c = "1" -> 1 [] c = "2" -> 2 [] c = "3" -> 3
      [] c = "4" -> 4 [] c = "5" -> 5 [] c = "6" -> 6 [] c = "7" -> 7
      [] c = "8" -> 8 [] c = "9" -> 9

\* length of the longest run of digits of s that starts at position p
RECURSIVE DigitRun(_, _)
DigitRun(s, p) ==
    IF p <= Len(s) /\ s[p] \in Digits THEN 1 + DigitRun(s, p + 1) ELSE 0

\* Number() of the digit string s[p .. p+n-1]
RECURSIVE DigitsToNumber(_, _, _)
DigitsToNumber(s, p, n) ==
    IF n = 0 THEN 0
    ELSE 10 * DigitsToNumber(s, p, n - 1) + DigitVal(s[p + n - 1])

\* /^(\d+)\.(\d+)/.exec( version ): <<>> when there is no match (null),
\* otherwise <<major digits, minor digits>> as (position, length) pairs
VersionExec(s) ==
    LET n1 == DigitRun(s, 1)
        n2 == DigitRun(s, n1 + 2)
    IN  IF n1 > 0 /\ n1 + 1 <= Len(s) /\ s[n1 + 1] = "." /\ n2 > 0
        THEN << <<1, n1>>, <<n1 + 2, n2>> >>
        ELSE <<>>

\* _load_version / _loadVersion: the parsed version, or a TypeError when the
\* match is null (version_array[1] of null)
LoadVersion(s) ==
    LET version_array == VersionExec(s)
    IN  IF version_array = <<>>
        THEN [threw |-> TRUE, major |-> 0, minor |-> 0]
        ELSE [threw |-> FALSE,
              major |-> DigitsToNumber(s, version_array[1][1], version_array[1][2]),
              minor |-> DigitsToNumber(s, version_array[2][1], version_array[2][2])]

\* the version check of both entry points
VersionTooOld(version) == version.major < 2

\* scenes[s].nodes of the asset: scene s lists node s+1, then node s
SceneNodes(s) == <<s + 1, s>>

\* textures[t].source of the asset: textures 2i and 2i+1 share image i
TextureSource(t) ==
    IF t \div 2 < NumImages THEN t \div 2 ELSE NumImages - 1

\* accessors[a] of the asset. The primitives of the scenes use accessors
\* 0..2: 0 and 1 address overlapping ranges of buffer 0 with 16-bit
\* components, 2 addresses the last buffer with one 32-bit component. The
\* further accessors all address buffer 0: 3 and 4 are interleaved (stride
\* 4, offsets 0 and 2), 5 has one 8-bit component, 6 one 32-bit component,
\* 7 addresses the very range of accessor 0
NumGjsonAccessors == 3
AccessorIdx == 0..(NumGjsonAccessors - 1)
AccessorBuffer(a) == IF a = 2 THEN NumBuffers - 1 ELSE 0
GjsonAccessor(a) ==
    CASE a = 0 -> [view_offset |-> 0, byte_stride |-> 0, byte_offset |-> 0,
                   component_size |-> 2, num_components |-> 1, count |-> 2]
      [] a = 1 -> [view_offset |-> 0, byte_stride |-> 0, byte_offset |-> 2,
                   component_size |-> 2, num_components |-> 1, count |-> 2]
      [] a = 3 -> [view_offset |-> 0, byte_stride |-> 4, byte_offset |-> 0,
                   component_size |-> 2, num_components |-> 1, count |-> 2]
      [] a = 4 -> [view_offset |-> 0, byte_stride |-> 4, byte_offset |-> 2,
                   component_size |-> 2, num_components |-> 1, count |-> 2]
      [] a = 5 -> [view_offset |-> 0, byte_stride |-> 0, byte_offset |-> 0,
                   component_size |-> 1, num_components |-> 1, count |-> 1]
      [] a = 7 -> [view_offset |-> 0, byte_stride |-> 0, byte_offset |-> 0,
                   component_size |-> 2, num_components |-> 1, count |-> 2]
      [] OTHER -> [view_offset |-> 4, byte_stride |-> 0, byte_offset |-> 0,
                   component_size |-> 4, num_components |-> 1, count |-> 1]

\* the accessors of the asset that address buffer 0
Buffer0AccessorIdx == {0, 1, 3, 4, 5, 6, 7}

\* buffers[i].byteLength of the asset, and the bytes the fetch of buffer i
\* delivers
BufferByteLength == 8
BufferContent(i) == [k \in 1..BufferByteLength |-> 16 * i + (k - 1)]

SceneIndexInputs == {Undefined} \cup {Num(i) : i \in -1..MaxScenes}

\* ------------------------------------------------------------------------
\* State
\* ------------------------------------------------------------------------
VARIABLES
    variant,           \* "callback" (glTFLoader) or "promise" (Tool.load)
    gjson_version,     \* gjson.asset.version
    gjson_scene,       \* gjson.scene
    num_scenes,        \* (gjson.scenes || []).length
    opts_index,        \* options.index of the callback loader
    host_little_endian,\* byte order of the machine the loader runs on
    pc,                \* position of the constructor / of load()
    thrown,            \* exception that left the constructor / the executor
    sel_scene,         \* scene index chosen by _load_scene (callback loader)
    node_objects,      \* nodes constructed so far, one list per scene
    referencing_scenes,\* scenes whose construction looked a buffer or image up
    root_nodes,        \* glTFLoader._root_nodes
    scenes,            \* Context._scenes
    default_scene_index, \* Context._default_scene_index
    load_count,        \* Context._load_count
    load_failed,       \* Context._load_failed
    body_finished,     \* Context._body_finished
    buffer_entries,    \* Context._buffer_entries (sparse: defined slots only)
    image_entries,     \* Context._image_entries  (sparse: defined slots only)
    texinfo_texture,   \* TextureInfo k -> its fields, the Texture it holds first
    content,           \* the Content constructed for the promise
    trace,             \* calls made so far: pipeline stages, callback, resolve, reject
    entity,            \* the ModelEntity consuming the promise
    gltf_scene,        \* the node tree handed to the Builder
    builder,           \* the Builder made by _onLoadModel
    resource_uri,      \* a resource URI of the asset and the base URI
    request_uri,       \* what solveResourceUri has returned for it
    registration,      \* the last call of addAccessor and the entries it found
    callback_loader    \* the root_nodes of the loader the finish callback was given

vars == << variant, gjson_version, gjson_scene, num_scenes, opts_index,
          host_little_endian, pc,
           thrown, sel_scene, node_objects, referencing_scenes, root_nodes,
           scenes, default_scene_index, load_count, load_failed, body_finished,
           buffer_entries, image_entries, texinfo_texture, content, trace,
           entity, gltf_scene, builder, resource_uri, request_uri,
           registration, callback_loader >>

inputs   == << variant, gjson_version, gjson_scene, num_scenes, opts_index,
              host_little_endian, gltf_scene, resource_uri >>
consumers == << builder, request_uri, registration, callback_loader >>
observers == << builder, request_uri, registration >>
counters == << load_count, load_failed, body_finished >>
entries  == << buffer_entries, image_entries, texinfo_texture >>
results  == << root_nodes, scenes, default_scene_index, content >>

\* ------------------------------------------------------------------------
\* Promise (one-shot settle) and trace
\* ------------------------------------------------------------------------
Event(op, idx) == <<op, idx>>
NoIdx == 0 - 1

PromiseOps == {"resolve", "reject_version", "reject_exception", "reject_failed"}

\* the calls of resolve()/reject() made so far, in order
PromiseCalls(tr) == SelectSeq(tr, LAMBDA e : e[1] \in PromiseOps)

\* state of the promise returned by load(): only the first call settles it
PromiseState(tr) ==
    LET calls == PromiseCalls(tr)
    IN  IF calls = <<>> THEN "pending"
        ELSE IF calls[1][1] = "resolve" THEN "fulfilled"
        ELSE "rejected"

\* GeoMath matrices, as 2x2 integer matrices <<a, b, c, d>> with rows (a b)
\* and (c d): their product is not commutative, as that of the 4x4 ones
Identity == <<1, 0, 0, 1>>
ShearX == <<1, 1, 0, 1>>
ShearY == <<1, 0, 1, 1>>
NodeMatrices == {ShearX, ShearY}

\* GeoMath.mul_AA( a, b, dst ): dst = a x b
MulAA(a, b) ==
    << a[1] * b[1] + a[2] * b[3], a[1] * b[2] + a[2] * b[4],
       a[3] * b[1] + a[4] * b[3], a[3] * b[2] + a[4] * b[4] >>

\* ModelEntity constructor: identity transform, empty primitive list and
\* matrix list, load started
NewEntity == [state |-> "loading", index |-> Undefined, scene |-> NoIdx,
              primitives |-> <<>>, transform |-> Identity, ptoe_array |-> <<>>]

\* _onLoadModel: a copy of the transform of every primitive
PtoeArray(primitives) == [k \in DOMAIN primitives |-> primitives[k].transform]

\* setTransform( matrix )
SetTransform(e, matrix) == [e EXCEPT !.transform = matrix]

\* the transform of a primitive is multiplied with the entity transform
\* in place
GetPrimitives_Compounds(e) ==
    [e EXCEPT !.primitives =
        [i \in DOMAIN e.primitives |->
            [e.primitives[i] EXCEPT
                !.transform = MulAA(e.transform, e.primitives[i].transform)]]]

\* getPrimitives( stage ): prim.transform = this._transform * ptoe
GetPrimitives(e) ==
    [e EXCEPT !.primitives =
        [i \in DOMAIN e.primitives |->
            [e.primitives[i] EXCEPT
                !.transform = MulAA(e.transform, e.ptoe_array[i])]]]

\* Content constructor
NewContent(scs, dsi) == [made |-> TRUE, scenes |-> scs, default_scene_index |-> dsi]
NoContent == [made |-> FALSE, scenes |-> <<>>, default_scene_index |-> NoIdx]

\* no resource URI given, none resolved
NoResource == [uri |-> <<>>, base_uri |-> <<>>]
NoRequest == [made |-> FALSE, uri |-> <<>>]

\* the finish callback has not been called
NoCallback == [called |-> FALSE, root_nodes |-> <<>>]

\* addAccessor has not been called
NoCall == [made |-> FALSE, accessor |-> <<>>, usage |-> "", before |-> <<>>]

\* no node tree, no Builder
NoScene == [root_nodes |-> <<>>, nodes |-> <<>>]
NoBuilder == [made |-> FALSE, primitives |-> <<>>, buffer_map |-> <<>>,
              texture_map |-> <<>>, mesh_buffers |-> <<>>, textures |-> <<>>]

Init ==
    /\ variant \in {"callback", "promise"}
    /\ gjson_version \in Versions
    /\ gjson_scene \in {Undefined} \cup {Num(i) : i \in 0..MaxScenes}
    /\ num_scenes \in 0..MaxScenes
    /\ opts_index \in SceneIndexInputs
    /\ variant = "promise" => opts_index = Undefined
    /\ host_little_endian \in BOOLEAN
    /\ pc = "new"
    /\ thrown = "none"
    /\ sel_scene = NoIdx
    /\ node_objects = <<>>
    /\ referencing_scenes = {}
    /\ root_nodes = <<>>
    /\ scenes = <<>>
    /\ default_scene_index = NoIdx
    /\ load_count = 0
    /\ load_failed = FALSE
    /\ body_finished = FALSE
    /\ buffer_entries = <<>>
    /\ image_entries = <<>>
    /\ texinfo_texture = <<>>
    /\ content = NoContent
    /\ trace = <<>>
    /\ entity = NewEntity
    /\ gltf_scene = NoScene
    /\ builder = NoBuilder
    /\ resource_uri = NoResource
    /\ request_uri = NoRequest
    /\ registration = NoCall
    /\ callback_loader = NoCallback

\* ------------------------------------------------------------------------
\* Entry point: glTFLoader constructor / Context.load, up to the node loop
\* ------------------------------------------------------------------------
\* _load_scene: the scene index the callback loader uses
SceneIndex(oi, gs) ==
    IF IsNumber(oi) THEN Val(oi)
    ELSE IF IsNumber(gs) THEN Val(gs)
    ELSE 0

\* the range check with an inclusive upper end
SceneExists_UpperInclusive(index, n) == index >= 0 /\ index <= n

\* _load_scene: the range check on the chosen index
SceneExists(index, n) == index >= 0 /\ index < n

\* glTFLoader constructor up to the start of the loop of _load_root_nodes
ConstructLoader ==
    /\ pc = "new"
    /\ variant = "callback"
    /\ LET version == LoadVersion(gjson_version)
           index   == SceneIndex(opts_index, gjson_scene)
       IN  IF version.threw
           THEN /\ pc' = "thrown"
                /\ thrown' = "TypeError"
                /\ UNCHANGED << sel_scene, node_objects >>
           ELSE IF VersionTooOld(version)
           THEN /\ pc' = "thrown"
                /\ thrown' = "glTF version error"
                /\ UNCHANGED << sel_scene, node_objects >>
           ELSE IF SceneExists(index, num_scenes)
           THEN /\ pc' = "parsing"
                /\ sel_scene' = index
                /\ node_objects' = << <<>> >>
                /\ UNCHANGED thrown
           ELSE /\ pc' = "thrown"
                /\ thrown' = "glTF scene does not exist"
                /\ UNCHANGED << sel_scene, node_objects >>
    /\ UNCHANGED << inputs, consumers, referencing_scenes,
                    counters, entries, results, trace, entity >>

\* Context.load: the promise executor up to the start of _loadScenes
ContextLoad ==
    /\ pc = "new"
    /\ variant = "promise"
    /\ LET version == LoadVersion(gjson_version)
       IN  IF version.threw
           THEN \* the executor throws: the promise is rejected with the exception
                /\ pc' = "thrown"
                /\ thrown' = "TypeError"
                /\ trace' = Append(trace, Event("reject_exception", NoIdx))
           ELSE IF VersionTooOld(version)
           THEN \* reject() is called and the executor goes on
                /\ pc' = "parsing"
                /\ trace' = Append(trace, Event("reject_version", NoIdx))
                /\ UNCHANGED thrown
           ELSE /\ pc' = "parsing"
                /\ UNCHANGED << thrown, trace >>
    /\ UNCHANGED << inputs, consumers, referencing_scenes,
                    sel_scene, node_objects, counters, entries,
                    results, entity >>

\* ------------------------------------------------------------------------
\* Body parse: construction of the scene / node tree
\* ------------------------------------------------------------------------
\* index in gjson.scenes of the scene whose nodes are being constructed
CurrentScene ==
    IF variant = "callback" THEN sel_scene ELSE Len(node_objects) - 1

\* every node of the scene under construction has been constructed
SceneComplete ==
    IF node_objects = <<>> THEN TRUE
    ELSE Len(node_objects[Len(node_objects)]) = Len(SceneNodes(CurrentScene))

\* entities are still constructed after the body parse has ended
InNode_AfterFinish ==
    /\ pc \in {"parsing", "done"}
    /\ node_objects # <<>>
    /\ node_objects[Len(node_objects)] # <<>>

\* some Node constructor has been entered: entities are being constructed
InNode ==
    /\ pc = "parsing"
    /\ node_objects # <<>>
    /\ node_objects[Len(node_objects)] # <<>>

\* _loadScenes: the next new Scene( this, index )
NewScene ==
    /\ pc = "parsing"
    /\ variant = "promise"
    /\ SceneComplete
    /\ Len(node_objects) < num_scenes
    /\ node_objects' = Append(node_objects, <<>>)
    /\ UNCHANGED << inputs, consumers, referencing_scenes,
                    pc, thrown, sel_scene, counters, entries, results,
                    trace, entity >>

\* the next new Node( ctx, node_index ) of the scene under construction
NewNode ==
    /\ pc = "parsing"
    /\ node_objects # <<>>
    /\ ~SceneComplete
    /\ LET k    == Len(node_objects)
           done == node_objects[k]
           next == SceneNodes(CurrentScene)[Len(done) + 1]
       IN  node_objects' = [node_objects EXCEPT ![k] = Append(done, next)]
    /\ UNCHANGED << inputs, consumers, referencing_scenes,
                    pc, thrown, sel_scene, counters, entries, results,
                    trace, entity >>

\* ------------------------------------------------------------------------
\* Post-load pipeline
\* ------------------------------------------------------------------------
\* the one element of a singleton set; { F(v) : v \in {e} } evaluates e once
Only(S) == CHOOSE x \in S : TRUE

\* BufferEntry / ImageEntry constructors (with the state of the fetch of
\* the Buffer / Image they hold, and the bytes of the Buffer once loaded)
NewBufferEntry == [status |-> "loading", binary |-> <<>>,
                   attrib_accessors |-> <<>>, index_accessors |-> <<>>]
NewImageEntry  == [status |-> "loading", texinfo_objects |-> <<>>]

\* the Buffer of buffers[index] as an Accessor's view refers to it, and the
\* Buffer made by a split pass, which carries its own bytes
SourceBuffer(index) == [index |-> index, usage |-> "SOURCE", binary |-> <<>>]
SubBuffer(index, usage, binary) ==
    [index |-> index, usage |-> usage, binary |-> binary]

\* Accessor: size of an element, distance of elements, addressed byte range
ElementSize(accessor) == accessor.component_size * accessor.num_components
EffectiveStride(accessor) ==
    IF accessor.buffer_view.byte_stride = 0
    THEN ElementSize(accessor)
    ELSE accessor.buffer_view.byte_stride
SrcStart(accessor) == accessor.buffer_view.byte_offset + accessor.byte_offset
SrcEnd(accessor) ==
    SrcStart(accessor) + (accessor.count - 1) * EffectiveStride(accessor)
                       + ElementSize(accessor)

\* the Map entry of an index is overwritten by every Accessor of that index
RECURSIVE GetOriginalAccessors_LastInstance(_)
GetOriginalAccessors_LastInstance(accessors) ==
    IF accessors = <<>> THEN <<>>
    ELSE Only({ IF \E k \in 1..Len(orig) :
                      orig[k].index = accessors[Len(accessors)].index
                THEN [k \in 1..Len(orig) |->
                        IF orig[k].index = accessors[Len(accessors)].index
                        THEN accessors[Len(accessors)]
                        ELSE orig[k]]
                ELSE Append(orig, accessors[Len(accessors)])
                : orig \in {GetOriginalAccessors_LastInstance(
                               SubSeq(accessors, 1, Len(accessors) - 1))} })

\* BufferEntry._getOriginalAccessors: the first Accessor of every index, in
\* the order of first appearance
RECURSIVE GetOriginalAccessors(_)
GetOriginalAccessors(accessors) ==
    IF accessors = <<>> THEN <<>>
    ELSE Only({ IF \E k \in 1..Len(orig) :
                      orig[k].index = accessors[Len(accessors)].index
                THEN orig
                ELSE Append(orig, accessors[Len(accessors)])
                : orig \in {GetOriginalAccessors(
                               SubSeq(accessors, 1, Len(accessors) - 1))} })

\* BufferEntry._getUnitedOriginalAccessors
GetUnitedOriginalAccessors(entry) ==
    GetOriginalAccessors(entry.attrib_accessors \o entry.index_accessors)

\* BitVector of n bits, all clear
NewBitVector(n) == [k \in 1..n |-> FALSE]

\* byte offsets of the components an Accessor addresses, element by element
ComponentOffsets(accessor) ==
    [k \in 1..(accessor.count * accessor.num_components) |->
        SrcStart(accessor)
        + ((k - 1) \div accessor.num_components) * EffectiveStride(accessor)
        + ((k - 1) % accessor.num_components) * accessor.component_size]

\* bits of the modification map that cover the group of size bytes at offset
GroupBits(offset, size) == {offset \div 2 + j + 1 : j \in 0..(size \div 2 - 1)}

\* the bytes of the group are rotated by one position, not reversed
SwapGroup_Rotated(bm, offset, size) ==
    IF \A b \in GroupBits(offset, size) : bm.modmap[b]
    THEN bm
    ELSE [binary |-> [k \in DOMAIN bm.binary |->
                        IF k - 1 >= offset /\ k - 1 < offset + size
                        THEN bm.binary[offset + ((k - offset) % size) + 1]
                        ELSE bm.binary[k]],
          modmap |-> [b \in DOMAIN bm.modmap |->
                        IF b \in GroupBits(offset, size) THEN TRUE
                        ELSE bm.modmap[b]]]

\* one component: the group is reversed and marked unless it is marked
SwapGroup(bm, offset, size) ==
    IF \A b \in GroupBits(offset, size) : bm.modmap[b]
    THEN bm
    ELSE [binary |-> [k \in DOMAIN bm.binary |->
                        IF k - 1 >= offset /\ k - 1 < offset + size
                        THEN bm.binary[2 * offset + size + 1 - k]
                        ELSE bm.binary[k]],
          modmap |-> [b \in DOMAIN bm.modmap |->
                        IF b \in GroupBits(offset, size) THEN TRUE
                        ELSE bm.modmap[b]]]

RECURSIVE SwapLoop(_, _, _)
SwapLoop(bm, offsets, size) ==
    IF offsets = <<>> THEN bm
    ELSE Only({ SwapLoop(SwapGroup(v, Head(offsets), size), Tail(offsets), size)
                : v \in {bm} })

\* Accessor.modifyByteOrder( modmap ): bm holds the bytes and the map
ModifyByteOrder(bm, accessor, little_endian) ==
    IF little_endian \/ accessor.component_size = 1
    THEN bm
    ELSE SwapLoop(bm, ComponentOffsets(accessor), accessor.component_size)

\* the loop makes a new modification map for every accessor
RECURSIVE ModifyLoop_MapPerAccessor(_, _, _)
ModifyLoop_MapPerAccessor(bm, accessors, little_endian) ==
    IF accessors = <<>> THEN bm
    ELSE Only({ ModifyLoop_MapPerAccessor(
                    ModifyByteOrder([binary |-> v.binary,
                                     modmap |-> [b \in DOMAIN v.modmap |-> FALSE]],
                                    Head(accessors), little_endian),
                    Tail(accessors), little_endian) : v \in {bm} })

\* the loop of rewriteByteOrder over the original accessors
RECURSIVE ModifyLoop(_, _, _)
ModifyLoop(bm, accessors, little_endian) ==
    IF accessors = <<>> THEN bm
    ELSE Only({ ModifyLoop(ModifyByteOrder(v, Head(accessors), little_endian),
                           Tail(accessors), little_endian) : v \in {bm} })

\* BufferEntry.rewriteByteOrder
RewriteByteOrder(entry, little_endian) ==
    LET modmap == NewBitVector((BufferByteLength + 1) \div 2)
        bm     == ModifyLoop([binary |-> entry.binary, modmap |-> modmap],
                             GetUnitedOriginalAccessors(entry), little_endian)
    IN  [entry EXCEPT !.binary = bm.binary]

\* BufferSplitter.update: the extent of an original Accessor is inserted
\* into the list of extents, which is kept sorted by src_start
RECURSIVE InsertExtent(_, _)
InsertExtent(sorted, e) ==
    IF sorted = <<>> THEN << e >>
    ELSE IF e.src_start < Head(sorted).src_start
    THEN << e >> \o sorted
    ELSE << Head(sorted) >> \o InsertExtent(Tail(sorted), e)

RECURSIVE SortedExtents(_)
SortedExtents(originals) ==
    IF originals = <<>> THEN <<>>
    ELSE LET accessor == originals[Len(originals)]
         IN  InsertExtent(
                 SortedExtents(SubSeq(originals, 1, Len(originals) - 1)),
                 [src_start |-> SrcStart(accessor),
                  src_end   |-> SrcEnd(accessor),
                  align     |-> accessor.component_size])

Max(a, b) == IF a >= b THEN a ELSE b

\* overlapping or abutting extents are united into disjoint runs
RECURSIVE Coalesce(_)
Coalesce(sorted) ==
    IF Len(sorted) <= 1 THEN sorted
    ELSE Only({ IF sorted[Len(sorted)].src_start <= runs[Len(runs)].src_end
                THEN [runs EXCEPT ![Len(runs)] =
                        [src_start |-> @.src_start,
                         src_end   |-> Max(@.src_end, sorted[Len(sorted)].src_end),
                         align     |-> Max(@.align, sorted[Len(sorted)].align)]]
                ELSE Append(runs, sorted[Len(sorted)])
                : runs \in {Coalesce(SubSeq(sorted, 1, Len(sorted) - 1))} })

AlignUp(cursor, align) == ((cursor + align - 1) \div align) * align

\* every run gets its dst_offset from an aligned running cursor
RECURSIVE PlaceRuns(_)
PlaceRuns(runs) ==
    IF runs = <<>> THEN <<>>
    ELSE Only({ Append(placed,
                    [src_start  |-> runs[Len(runs)].src_start,
                     src_end    |-> runs[Len(runs)].src_end,
                     dst_offset |->
                        AlignUp(IF placed = <<>> THEN 0
                                ELSE placed[Len(placed)].dst_offset
                                     + placed[Len(placed)].src_end
                                     - placed[Len(placed)].src_start,
                                runs[Len(runs)].align)])
                : placed \in {PlaceRuns(SubSeq(runs, 1, Len(runs) - 1))} })

\* the byte at offset of the bytes of a Buffer (0 where there are none)
ByteAt(binary, offset) ==
    IF offset + 1 \in DOMAIN binary THEN binary[offset + 1] ELSE 0

\* BufferSplitter.close( buffer ): the bytes of the packed output buffer
PackedBinary(placed, binary) ==
    IF placed = <<>> THEN <<>>
    ELSE LET last == placed[Len(placed)]
             size == last.dst_offset + last.src_end - last.src_start
         IN  [k \in 1..size |->
                IF \E r \in 1..Len(placed) :
                      /\ k - 1 >= placed[r].dst_offset
                      /\ k - 1 < placed[r].dst_offset + placed[r].src_end
                                                      - placed[r].src_start
                THEN LET r == CHOOSE r \in 1..Len(placed) :
                                /\ k - 1 >= placed[r].dst_offset
                                /\ k - 1 < placed[r].dst_offset + placed[r].src_end
                                                                - placed[r].src_start
                     IN  ByteAt(binary, placed[r].src_start
                                        + (k - 1 - placed[r].dst_offset))
                ELSE 0]

\* BufferSplitter.rebuildAccessor( accessor ): the view points at the packed
\* buffer, the offset of the accessor is folded into the offset of the view
RebuildAccessor(accessor, placed, buffer) ==
    LET r == CHOOSE r \in 1..Len(placed) :
                /\ placed[r].src_start <= SrcStart(accessor)
                /\ SrcEnd(accessor) <= placed[r].src_end
    IN  [accessor EXCEPT
            !.buffer_view = [buffer      |-> buffer,
                             byte_offset |-> placed[r].dst_offset
                                             + SrcStart(accessor) - placed[r].src_start,
                             byte_stride |-> @.byte_stride],
            !.byte_offset = 0]

\* a new BufferSplitter is made for every accessor
SplitPass_SplitterPerAccessor(accessors, index, usage, binary) ==
    [k \in DOMAIN accessors |->
        LET placed == PlaceRuns(Coalesce(SortedExtents(<< accessors[k] >>)))
        IN  RebuildAccessor(accessors[k], placed,
                            SubBuffer(index, usage, PackedBinary(placed, binary)))]

\* the splitter is closed before the accessors are passed to update
SplitPass_ClosedBeforeUpdate(accessors, index, usage, binary) ==
    LET placed == PlaceRuns(Coalesce(SortedExtents(GetOriginalAccessors(accessors))))
        buffer == SubBuffer(index, usage, PackedBinary(<<>>, binary))
    IN  [k \in DOMAIN accessors |-> RebuildAccessor(accessors[k], placed, buffer)]

\* BufferEntry._splitBufferAndRebuildAccessors( accessors )
SplitPass(accessors, index, usage, binary) ==
    LET placed == PlaceRuns(Coalesce(SortedExtents(GetOriginalAccessors(accessors))))
        buffer == SubBuffer(index, usage, PackedBinary(placed, binary))
    IN  [k \in DOMAIN accessors |-> RebuildAccessor(accessors[k], placed, buffer)]

\* one pass with one splitter is made over the accessors of both usages
SplitBufferAndRebuildAccessors_OnePass(entry, index) ==
    LET all == SplitPass(entry.attrib_accessors \o entry.index_accessors,
                         index, "ATTRIBUTE", entry.binary)
    IN  [entry EXCEPT
            !.attrib_accessors = SubSeq(all, 1, Len(entry.attrib_accessors)),
            !.index_accessors  = SubSeq(all, Len(entry.attrib_accessors) + 1,
                                        Len(all))]

\* the second call is made with the attribute accessors again
SplitBufferAndRebuildAccessors_AttribTwice(entry, index) ==
    [entry EXCEPT
        !.attrib_accessors =
            SplitPass(SplitPass(@, index, "ATTRIBUTE", entry.binary),
                      index, "ATTRIBUTE", entry.binary)]

\* BufferEntry.splitBufferAndRebuildAccessors
SplitBufferAndRebuildAccessors(entry, index) ==
    [entry EXCEPT
        !.attrib_accessors = SplitPass(@, index, "ATTRIBUTE", entry.binary),
        !.index_accessors  = SplitPass(@, index, "INDEX", entry.binary)]

\* the data the pipeline works on, and the log of the stage calls it makes
PipelineState(be, ie, tt) ==
    [buffers |-> be, images |-> ie, texinfos |-> tt, log |-> <<>>,
     little_endian |-> host_little_endian]

\* the representative is the texture of the TextureInfo registered last
RebuildTextureInfo_LastRepresentative(texinfo_objects, tt) ==
    IF Len(texinfo_objects) <= 1
    THEN tt
    ELSE LET representative_texture == tt[texinfo_objects[Len(texinfo_objects)]].texture
         IN  [k \in DOMAIN tt |->
                IF \E i \in 1..Len(texinfo_objects) : texinfo_objects[i] = k
                THEN [tt[k] EXCEPT !.texture = representative_texture]
                ELSE tt[k]]

\* the TextureInfo objects of the entry are replaced by the first one
RebuildTextureInfo_CopiesObject(texinfo_objects, tt) ==
    IF Len(texinfo_objects) <= 1
    THEN tt
    ELSE [k \in DOMAIN tt |->
            IF \E i \in 2..Len(texinfo_objects) : texinfo_objects[i] = k
            THEN tt[texinfo_objects[1]]
            ELSE tt[k]]

\* ImageEntry.rebuildTextureInfo: the TextureInfo objects after the call
RebuildTextureInfo(texinfo_objects, tt) ==
    IF Len(texinfo_objects) <= 1
    THEN tt
    ELSE LET representative_texture == tt[texinfo_objects[1]].texture
         IN  [k \in DOMAIN tt |->
                IF \E i \in 2..Len(texinfo_objects) : texinfo_objects[i] = k
                THEN [tt[k] EXCEPT !.texture = representative_texture]
                ELSE tt[k]]

\* the loop of _rewriteBuffersForByteOrder over the defined slots
RECURSIVE RewriteLoop(_, _)
RewriteLoop(st, order) ==
    IF order = <<>> THEN st
    ELSE LET i == Head(order)
         IN  Only({ RewriteLoop(
                      [v EXCEPT !.buffers[i] = RewriteByteOrder(v.buffers[i], v.little_endian),
                                !.log = Append(@, Event("rewrite", i))],
                      Tail(order)) : v \in {st} })

\* the loop of _splitBuffersAndRebuildAccessors over the defined slots
RECURSIVE SplitLoop(_, _)
SplitLoop(st, order) ==
    IF order = <<>> THEN st
    ELSE LET i == Head(order)
         IN  Only({ SplitLoop(
                      [v EXCEPT !.buffers[i] = SplitBufferAndRebuildAccessors(v.buffers[i], i),
                                !.log = Append(@, Event("split", i))],
                      Tail(order)) : v \in {st} })

\* the loop of _rebuildTextureInfo over the defined slots
RECURSIVE TextureLoop(_, _)
TextureLoop(st, order) ==
    IF order = <<>> THEN st
    ELSE LET i == Head(order)
         IN  Only({ TextureLoop(
                      [v EXCEPT !.texinfos = RebuildTextureInfo(v.images[i].texinfo_objects, @),
                                !.log = Append(@, Event("dedupe", i))],
                      Tail(order)) : v \in {st} })

\* the entries are visited from the last slot to the first
RewriteBuffersForByteOrder_Descending(st) ==
    Only({ RewriteLoop(v, LET asc == AscSeq(DOMAIN v.buffers)
                          IN  [k \in 1..Len(asc) |-> asc[Len(asc) + 1 - k]])
           : v \in {st} })

\* Context._rewriteBuffersForByteOrder
RewriteBuffersForByteOrder(st) ==
    Only({ RewriteLoop(v, AscSeq(DOMAIN v.buffers)) : v \in {st} })

\* Context._splitBuffersAndRebuildAccessors
SplitBuffersAndRebuildAccessors(st) ==
    Only({ SplitLoop(v, AscSeq(DOMAIN v.buffers)) : v \in {st} })

\* Context._rebuildTextureInfo
RebuildTextureInfos(st) ==
    Only({ TextureLoop(v, AscSeq(DOMAIN v.images)) : v \in {st} })

\* the buffers are split before their byte order is rewritten
PostProcess_SplitBeforeRewrite(st) ==
    RebuildTextureInfos(RewriteBuffersForByteOrder(SplitBuffersAndRebuildAccessors(st)))

\* the three stage calls of _onFinishLoadSomething on the success path
PostProcess(st) ==
    RebuildTextureInfos(SplitBuffersAndRebuildAccessors(RewriteBuffersForByteOrder(st)))

\* ------------------------------------------------------------------------
\* Context: counting and settlement
\* ------------------------------------------------------------------------
\* a fetch start is counted twice
OnStartLoad_CountsTwice(lc) == lc + 2

\* onStartLoadBuffer / onStartLoadImage
OnStartLoad(lc) == lc + 1

\* the flag is overwritten by every report: the last report decides
FailedAfterFinish_LastReportWins(lf, failed) == failed

\* onFinishLoadBuffer / onFinishLoadImage: the failure flag after the call
FailedAfterFinish(lf, failed) == IF failed THEN TRUE ELSE lf

\* a failed fetch returns before the counter is decremented
CountAfterFinish_FailedKeepsCount(lc, failed) == IF failed THEN lc ELSE lc - 1

\* a failed fetch clears the counter
CountAfterFinish_FailedClearsCount(lc, failed) == IF failed THEN 0 ELSE lc - 1

\* onFinishLoadBuffer / onFinishLoadImage: the counter after the call
CountAfterFinish(lc, failed) == lc - 1

\* the condition with an off-by-one comparison of the counter
AllFinished_CountAtMostOne(bf, lc) == bf /\ lc <= 1

\* the condition without the body flag
AllFinished_NoBodyFlag(bf, lc) == lc = 0

\* _onFinishLoadSomething: the condition under which the load is settled
AllFinished(bf, lc) == bf /\ lc = 0

\* the failure flag is not looked at
IsSuccess_Always(lf) == TRUE

\* _onFinishLoadSomething: is_success
IsSuccess(lf) == ~lf

\* the three stages are run whatever the failure flag says
RunsPostProcess_Always(is_success) == TRUE

\* _onFinishLoadSomething: whether the three stages are run
RunsPostProcess(is_success) == is_success

\* _onFinishLoadSomething, called with the fields of the Context as they are
\* at the call: bf/lc/lf the flags, be/ie the entries, scs/dsi the scenes
OnFinishLoadSomething(bf, lc, lf, be, ie, scs, dsi, rn) ==
    IF AllFinished(bf, lc)
    THEN \E is_success \in {IsSuccess(lf)} :
         \E st0 \in {PipelineState(be, ie, texinfo_texture)} :
         \E st \in {IF RunsPostProcess(is_success) THEN PostProcess(st0) ELSE st0} :
             /\ buffer_entries' = st.buffers
             /\ image_entries' = st.images
             /\ texinfo_texture' = st.texinfos
             /\ IF variant = "callback"
                THEN /\ trace' = trace \o st.log \o
                          << Event(IF is_success THEN "callback_ok" ELSE "callback_failed", NoIdx) >>
                     /\ content' = content
                     /\ callback_loader' = [called |-> TRUE, root_nodes |-> rn]
                ELSE IF is_success
                THEN /\ content' = NewContent(scs, dsi)
                     /\ trace' = trace \o st.log \o << Event("resolve", NoIdx) >>
                     /\ UNCHANGED callback_loader
                ELSE /\ content' = content
                     /\ trace' = trace \o st.log \o << Event("reject_failed", NoIdx) >>
                     /\ UNCHANGED callback_loader
    ELSE /\ buffer_entries' = be
         /\ image_entries' = ie
         /\ UNCHANGED << texinfo_texture, content, trace, callback_loader >>

\* ------------------------------------------------------------------------
\* Context: registration, called by the entity constructors during body parse
\* ------------------------------------------------------------------------
\* findBuffer: the entries after the call
FindBufferEntries(be, index) ==
    IF index \in DOMAIN be THEN be ELSE (index :> NewBufferEntry) @@ be

\* findBuffer: the counter after the call (the Buffer constructor starts the
\* fetch of a new Buffer and reports it through onStartLoadBuffer)
FindBufferCount(be, lc, index) ==
    IF index \in DOMAIN be THEN lc ELSE OnStartLoad(lc)

\* findImage: the entries after the call
FindImageEntries(ie, index) ==
    IF index \in DOMAIN ie THEN ie ELSE (index :> NewImageEntry) @@ ie

\* findImage starts a fetch on every call, whether the entry exists or not
FindImageCount_EveryCall(ie, lc, index) == OnStartLoad(lc)

\* findImage: the counter after the call
FindImageCount(ie, lc, index) ==
    IF index \in DOMAIN ie THEN lc ELSE OnStartLoad(lc)

\* the switch falls through to the INDEX case for every other usage
AddAccessor_DefaultIsIndex(be, accessor, usage) ==
    LET b == accessor.buffer_view.buffer.index
    IN  IF usage = "ATTRIBUTE"
        THEN [be EXCEPT ![b].attrib_accessors = Append(@, accessor)]
        ELSE [be EXCEPT ![b].index_accessors = Append(@, accessor)]

\* addAccessor with BufferEntry.addAttributeAccessor / addIndexAccessor
AddAccessor(be, accessor, usage) ==
    LET b == accessor.buffer_view.buffer.index
    IN  CASE usage = "ATTRIBUTE" ->
               [be EXCEPT ![b].attrib_accessors = Append(@, accessor)]
          [] usage = "INDEX" ->
               [be EXCEPT ![b].index_accessors = Append(@, accessor)]
          [] OTHER -> be

\* addTextureInfo with ImageEntry.addTextureInfo
AddTextureInfo(ie, info, image) ==
    [ie EXCEPT ![image].texinfo_objects = Append(@, info)]

\* number of Accessor instances registered so far
RECURSIVE NumRegistered(_, _)
NumRegistered(be, order) ==
    IF order = <<>> THEN 0
    ELSE Len(be[Head(order)].attrib_accessors)
         + Len(be[Head(order)].index_accessors)
         + NumRegistered(be, Tail(order))

\* Accessor constructor: the instance made for accessors[a]
NewAccessor(a) ==
    [index          |-> a,
     buffer_view    |-> [buffer      |-> SourceBuffer(AccessorBuffer(a)),
                         byte_offset |-> GjsonAccessor(a).view_offset,
                         byte_stride |-> GjsonAccessor(a).byte_stride],
     byte_offset    |-> GjsonAccessor(a).byte_offset,
     component_size |-> GjsonAccessor(a).component_size,
     num_components |-> GjsonAccessor(a).num_components,
     count          |-> GjsonAccessor(a).count]

\* a BufferView constructor calls findBuffer( index )
FindBuffer(index) ==
    /\ InNode
    /\ referencing_scenes' = referencing_scenes \cup {CurrentScene}
    /\ buffer_entries' = FindBufferEntries(buffer_entries, index)
    /\ load_count' = FindBufferCount(buffer_entries, load_count, index)
    /\ UNCHANGED << inputs, consumers,
                    pc, thrown, sel_scene, node_objects, load_failed,
                    body_finished, image_entries, texinfo_texture, results,
                    trace, entity >>

\* a Texture constructor calls findImage( index )
FindImage(index) ==
    /\ InNode
    /\ referencing_scenes' = referencing_scenes \cup {CurrentScene}
    /\ image_entries' = FindImageEntries(image_entries, index)
    /\ load_count' = FindImageCount(image_entries, load_count, index)
    /\ UNCHANGED << inputs, consumers,
                    pc, thrown, sel_scene, node_objects, load_failed,
                    body_finished, buffer_entries, texinfo_texture, results,
                    trace, entity >>

\* a Primitive constructs the Accessor of accessors[a] (its BufferView looks
\* the buffer up) and registers it under usage
RegisterAccessor(a, usage) ==
    /\ InNode
    /\ referencing_scenes' = referencing_scenes \cup {CurrentScene}
    /\ NumRegistered(buffer_entries, AscSeq(DOMAIN buffer_entries)) < MaxAccessors
    /\ LET accessor == NewAccessor(a)
           be       == FindBufferEntries(buffer_entries, accessor.buffer_view.buffer.index)
       IN  /\ buffer_entries' = AddAccessor(be, accessor, usage)
           /\ load_count' = FindBufferCount(buffer_entries, load_count,
                                         accessor.buffer_view.buffer.index)
    /\ UNCHANGED << inputs, consumers,
                    pc, thrown, sel_scene, node_objects, load_failed,
                    body_finished, image_entries, texinfo_texture, results,
                    trace, entity >>

\* Texture constructor: the Texture of textures[t] made by TextureInfo info
\* (every TextureInfo constructs a Texture of its own)
NewTexture(t, info) == [index |-> t, id |-> info]

\* TextureInfo constructor: the info-th TextureInfo of the asset, holding
\* texture t, with the texCoord, scale and strength of its JSON object
NewTextureInfo(t, info) ==
    [texture |-> NewTexture(t, info), texCoord |-> info % 2,
     scale |-> info + 1, strength |-> info + 2]

\* a Material constructs a TextureInfo holding texture t (the Texture looks
\* its image up); the TextureInfo registers itself
RegisterTextureInfo(t) ==
    /\ InNode
    /\ referencing_scenes' = referencing_scenes \cup {CurrentScene}
    /\ Len(texinfo_texture) < MaxTexInfos
    /\ LET info  == Len(texinfo_texture) + 1
           image == TextureSource(t)
           ie    == FindImageEntries(image_entries, image)
       IN  /\ texinfo_texture' = Append(texinfo_texture, NewTextureInfo(t, info))
           /\ image_entries' = AddTextureInfo(ie, info, image)
           /\ load_count' = FindImageCount(image_entries, load_count, image)
    /\ UNCHANGED << inputs, consumers,
                    pc, thrown, sel_scene, node_objects, load_failed,
                    body_finished, buffer_entries, results, trace, entity >>

\* an entity constructor throws (malformed asset): the constructor / the
\* executor is left, nothing of the body parse is kept
ParseThrow ==
    /\ InNode
    /\ pc' = "thrown"
    /\ thrown' = "malformed"
    /\ trace' = IF variant = "promise"
                THEN Append(trace, Event("reject_exception", NoIdx))
                ELSE trace
    /\ UNCHANGED << inputs, consumers, referencing_scenes,
                    sel_scene, node_objects, counters, entries,
                    results, entity >>

\* onFinishLoadBody calls _onFinishLoadSomething before it sets the body
\* flag
FinishLoadBody_FlagAfterCall ==
    /\ pc = "parsing"
    /\ SceneComplete
    /\ variant = "callback" => Len(node_objects) = 1
    /\ variant = "promise" => Len(node_objects) = num_scenes
    /\ pc' = "done"
    /\ root_nodes' = IF variant = "callback" THEN node_objects[1] ELSE root_nodes
    /\ scenes' = IF variant = "promise" THEN node_objects ELSE scenes
    /\ default_scene_index' =
          IF variant = "promise" /\ IsNumber(gjson_scene)
          THEN Val(gjson_scene) ELSE default_scene_index
    /\ body_finished' = TRUE
    /\ OnFinishLoadSomething(body_finished, load_count, load_failed, buffer_entries,
                             image_entries, scenes', default_scene_index',
                             root_nodes')
    /\ UNCHANGED << inputs, observers, referencing_scenes,
                    thrown, sel_scene, node_objects, load_count,
                    load_failed, entity >>

\* onFinishLoadBody is called before _root_nodes is set
FinishLoadBody_BeforeRootNodes ==
    /\ pc = "parsing"
    /\ SceneComplete
    /\ variant = "callback" => Len(node_objects) = 1
    /\ variant = "promise" => Len(node_objects) = num_scenes
    /\ pc' = "done"
    /\ root_nodes' = IF variant = "callback" THEN node_objects[1] ELSE root_nodes
    /\ scenes' = IF variant = "promise" THEN node_objects ELSE scenes
    /\ default_scene_index' =
          IF variant = "promise" /\ IsNumber(gjson_scene)
          THEN Val(gjson_scene) ELSE default_scene_index
    /\ body_finished' = TRUE
    /\ OnFinishLoadSomething(TRUE, load_count, load_failed, buffer_entries,
                             image_entries, scenes', default_scene_index',
                             root_nodes)
    /\ UNCHANGED << inputs, observers, referencing_scenes,
                    thrown, sel_scene, node_objects, load_count,
                    load_failed, entity >>

\* the end of body parse: _root_nodes / _scenes are set and
\* onFinishLoadBody is called
FinishLoadBody ==
    /\ pc = "parsing"
    /\ SceneComplete
    /\ variant = "callback" => Len(node_objects) = 1
    /\ variant = "promise" => Len(node_objects) = num_scenes
    /\ pc' = "done"
    /\ root_nodes' = IF variant = "callback" THEN node_objects[1] ELSE root_nodes
    /\ scenes' = IF variant = "promise" THEN node_objects ELSE scenes
    /\ default_scene_index' =
          IF variant = "promise" /\ IsNumber(gjson_scene)
          THEN Val(gjson_scene) ELSE default_scene_index
    /\ body_finished' = TRUE
    /\ OnFinishLoadSomething(TRUE, load_count, load_failed, buffer_entries,
                             image_entries, scenes', default_scene_index',
                             root_nodes')
    /\ UNCHANGED << inputs, observers, referencing_scenes,
                    thrown, sel_scene, node_objects, load_count,
                    load_failed, entity >>

\* ------------------------------------------------------------------------
\* Fetch completions
\* ------------------------------------------------------------------------
\* no handler is running: a completion can be delivered
Idle == pc \in {"done", "thrown"}

\* the fetch of buffer i completes and calls onFinishLoadBuffer( failed )
BufferFetchDone(i, failed) ==
    /\ Idle
    /\ i \in DOMAIN buffer_entries
    /\ buffer_entries[i].status = "loading"
    /\ load_failed' = FailedAfterFinish(load_failed, failed)
    /\ load_count' = CountAfterFinish(load_count, failed)
    /\ OnFinishLoadSomething(body_finished, load_count', load_failed',
          [buffer_entries EXCEPT
              ![i].status = IF failed THEN "failed" ELSE "loaded",
              ![i].binary = IF failed THEN @ ELSE BufferContent(i)],
          image_entries, scenes, default_scene_index, root_nodes)
    /\ UNCHANGED << inputs, observers, referencing_scenes,
                    pc, thrown, sel_scene, node_objects, body_finished,
                    root_nodes, scenes, default_scene_index, entity >>

\* the fetch of image i completes and calls onFinishLoadImage( failed )
ImageFetchDone(i, failed) ==
    /\ Idle
    /\ i \in DOMAIN image_entries
    /\ image_entries[i].status = "loading"
    /\ load_failed' = FailedAfterFinish(load_failed, failed)
    /\ load_count' = CountAfterFinish(load_count, failed)
    /\ OnFinishLoadSomething(body_finished, load_count', load_failed',
          buffer_entries,
          [image_entries EXCEPT ![i].status = IF failed THEN "failed" ELSE "loaded"],
          scenes, default_scene_index, root_nodes)
    /\ UNCHANGED << inputs, observers, referencing_scenes,
                    pc, thrown, sel_scene, node_objects, body_finished,
                    root_nodes, scenes, default_scene_index, entity >>

\* ------------------------------------------------------------------------
\* The consumer of the promise: ModelEntity
\* ------------------------------------------------------------------------
\* the default scene of the Content is not looked at
ConsumerSceneIndex_IgnoresDefault(index, dsi) ==
    IF IsNumber(index) /\ Val(index) >= 0 THEN Val(index) ELSE 0

\* _onLoadModel: the scene index used
ConsumerSceneIndex(index, dsi) ==
    LET si1 == IF IsNumber(index) THEN Val(index) ELSE dsi
    IN  IF si1 >= 0 THEN si1 ELSE 0

\* _onLoadModel( content, index ), the then-callback of _startLoading
OnLoadModel(index) ==
    /\ variant = "promise"
    /\ Idle
    /\ PromiseState(trace) = "fulfilled"
    /\ entity.state = "loading"
    /\ LET si2 == ConsumerSceneIndex(index, content.default_scene_index)
       IN  entity' =
             IF Len(content.scenes) = 0
             THEN [entity EXCEPT !.state = "no_scene", !.index = index]
             ELSE IF si2 >= Len(content.scenes)
             THEN \* content.scenes[si2] is undefined: reading root_nodes throws
                  [entity EXCEPT !.state = "TypeError", !.index = index,
                                      !.scene = si2]
             ELSE [entity EXCEPT !.state = "built", !.index = index,
                                 !.scene = si2,
                                 !.primitives = content.scenes[si2 + 1],
                                 \* the nodes stand for their primitives here
                                 !.ptoe_array = [k \in DOMAIN content.scenes[si2 + 1]
                                                   |-> Identity]]
    /\ UNCHANGED << inputs, consumers, referencing_scenes, pc, thrown, sel_scene,
                    node_objects, counters,
                    entries, results, trace >>

\* ------------------------------------------------------------------------
\* Specification
\* ------------------------------------------------------------------------
Next ==
    \/ ConstructLoader
    \/ ContextLoad
    \/ NewScene
    \/ NewNode
    \/ \E i \in BufferIdx : FindBuffer(i)
    \/ \E i \in ImageIdx : FindImage(i)
    \/ \E a \in AccessorIdx, usage \in {"ATTRIBUTE", "INDEX"} : RegisterAccessor(a, usage)
    \/ \E t \in TextureIdx : RegisterTextureInfo(t)
    \/ ParseThrow
    \/ FinishLoadBody
    \/ \E i \in BufferIdx, failed \in BOOLEAN : BufferFetchDone(i, failed)
    \/ \E i \in ImageIdx, failed \in BOOLEAN : ImageFetchDone(i, failed)
    \/ \E index \in SceneIndexInputs : OnLoadModel(index)

Spec == Init /\ [][Next]_vars

\* a smaller set of inputs for the liveness check: every fetch that was
\* started reports completion
LiveInit ==
    /\ Init
    /\ gjson_version = Version20
    /\ gjson_scene = Undefined
    /\ opts_index = Undefined
    /\ num_scenes = 1

\* the steps that start and finish fetches
LiveNext ==
    \/ ConstructLoader
    \/ ContextLoad
    \/ NewScene
    \/ NewNode
    \/ \E i \in BufferIdx : FindBuffer(i)
    \/ \E i \in ImageIdx : FindImage(i)
    \/ FinishLoadBody
    \/ \E i \in BufferIdx, failed \in BOOLEAN : BufferFetchDone(i, failed)
    \/ \E i \in ImageIdx, failed \in BOOLEAN : ImageFetchDone(i, failed)

LiveSpec ==
    /\ LiveInit
    /\ [][LiveNext]_vars
    /\ WF_vars(\E i \in BufferIdx, failed \in BOOLEAN : BufferFetchDone(i, failed))
    /\ WF_vars(\E i \in ImageIdx, failed \in BOOLEAN : ImageFetchDone(i, failed))

\* the callback loader with a body parse that may throw; every fetch that
\* was started reports completion
AbortInit ==
    /\ LiveInit
    /\ variant = "callback"

AbortNext ==
    \/ ConstructLoader
    \/ NewNode
    \/ \E i \in BufferIdx : FindBuffer(i)
    \/ \E i \in ImageIdx : FindImage(i)
    \/ ParseThrow
    \/ FinishLoadBody
    \/ \E i \in BufferIdx, failed \in BOOLEAN : BufferFetchDone(i, failed)
    \/ \E i \in ImageIdx, failed \in BOOLEAN : ImageFetchDone(i, failed)

AbortSpec ==
    /\ AbortInit
    /\ [][AbortNext]_vars
    /\ WF_vars(\E i \in BufferIdx, failed \in BOOLEAN : BufferFetchDone(i, failed))
    /\ WF_vars(\E i \in ImageIdx, failed \in BOOLEAN : ImageFetchDone(i, failed))

\* the promise loader and its consumer: every asset of Spec, loaded through
\* Tool.load on a little-endian host and handed to a ModelEntity
ConsumerInit ==
    /\ Init
    /\ variant = "promise"
    /\ host_little_endian = TRUE

\* the steps from Context.load to _onLoadModel
ConsumerNext ==
    \/ ContextLoad
    \/ NewScene
    \/ NewNode
    \/ \E i \in BufferIdx : FindBuffer(i)
    \/ \E i \in ImageIdx : FindImage(i)
    \/ FinishLoadBody
    \/ \E i \in BufferIdx, failed \in BOOLEAN : BufferFetchDone(i, failed)
    \/ \E i \in ImageIdx, failed \in BOOLEAN : ImageFetchDone(i, failed)
    \/ \E index \in SceneIndexInputs : OnLoadModel(index)

ConsumerSpec == ConsumerInit /\ [][ConsumerNext]_vars

\* ------------------------------------------------------------------------
\* Assets with several scenes: the loaders on an asset of version 2.0 that
\* has one scene more than the assets of Spec
\* ------------------------------------------------------------------------
ScenesInit ==
    /\ variant \in {"callback", "promise"}
    /\ gjson_version = Version20
    /\ num_scenes = MaxScenes + 1
    /\ gjson_scene \in {Undefined} \cup {Num(i) : i \in 0..(num_scenes - 1)}
    /\ opts_index \in {Undefined} \cup {Num(i) : i \in 0..(num_scenes - 1)}
    /\ variant = "promise" => opts_index = Undefined
    /\ host_little_endian = TRUE
    /\ pc = "new"
    /\ thrown = "none"
    /\ sel_scene = NoIdx
    /\ node_objects = <<>>
    /\ referencing_scenes = {}
    /\ root_nodes = <<>>
    /\ scenes = <<>>
    /\ default_scene_index = NoIdx
    /\ load_count = 0
    /\ load_failed = FALSE
    /\ body_finished = FALSE
    /\ buffer_entries = <<>>
    /\ image_entries = <<>>
    /\ texinfo_texture = <<>>
    /\ content = NoContent
    /\ trace = <<>>
    /\ entity = NewEntity
    /\ gltf_scene = NoScene
    /\ builder = NoBuilder
    /\ resource_uri = NoResource
    /\ request_uri = NoRequest
    /\ registration = NoCall
    /\ callback_loader = NoCallback

ScenesSpec == ScenesInit /\ [][Next]_vars

\* ------------------------------------------------------------------------
\* One BufferEntry under the stages: the entry of buffer 0 with its bytes
\* loaded and any registration of the accessors of buffer 0
\* ------------------------------------------------------------------------
\* the lists of at most n Accessor instances of buffer 0
AccessorLists(n) ==
    UNION { { [k \in 1..len |-> NewAccessor(idx[k])]
              : idx \in [1..len -> Buffer0AccessorIdx] } : len \in 0..n }

\* the groups of bytes (first offset, size) an Accessor addresses as one
\* multi-byte component
ComponentGroups(accessor) ==
    IF accessor.component_size = 1 THEN {}
    ELSE { << ComponentOffsets(accessor)[k], accessor.component_size >>
           : k \in DOMAIN ComponentOffsets(accessor) }

\* typed data: two components of the accessors in a list never overlap
\* unless they are the same group of bytes
WellTyped(accessors) ==
    \A j, k \in 1..Len(accessors) :
        \A g \in ComponentGroups(accessors[j]), h \in ComponentGroups(accessors[k]) :
            g = h \/ g[1] + g[2] <= h[1] \/ h[1] + h[2] <= g[1]

EntryInit ==
    /\ variant = "callback"
    /\ gjson_version = Version20
    /\ gjson_scene = Undefined
    /\ num_scenes = 1
    /\ opts_index = Undefined
    /\ host_little_endian \in BOOLEAN
    /\ pc = "done"
    /\ thrown = "none"
    /\ sel_scene = 0
    /\ node_objects = << SceneNodes(0) >>
    /\ referencing_scenes = {0}
    /\ root_nodes = SceneNodes(0)
    /\ scenes = <<>>
    /\ default_scene_index = NoIdx
    /\ load_count = 0
    /\ load_failed = FALSE
    /\ body_finished = TRUE
    /\ \E attrib \in AccessorLists(MaxAttribAccessors),
          index \in AccessorLists(MaxIndexAccessors) :
          /\ WellTyped(attrib \o index)
          /\ buffer_entries =
                (0 :> [status |-> "loaded", binary |-> BufferContent(0),
                       attrib_accessors |-> attrib, index_accessors |-> index])
    /\ image_entries = <<>>
    /\ texinfo_texture = <<>>
    /\ content = NoContent
    /\ trace = <<>>
    /\ entity = NewEntity
    /\ gltf_scene = NoScene
    /\ builder = NoBuilder
    /\ resource_uri = NoResource
    /\ request_uri = NoRequest
    /\ registration = NoCall
    /\ callback_loader = NoCallback

\* rewriteByteOrder() is called on the entry (at most twice, before the
\* split)
EntryRewrite ==
    /\ Cardinality({k \in 1..Len(trace) : trace[k] = Event("rewrite", 0)}) < 2
    /\ \A k \in 1..Len(trace) : trace[k] # Event("split", 0)
    /\ buffer_entries' = [buffer_entries EXCEPT
                             ![0] = RewriteByteOrder(@, host_little_endian)]
    /\ trace' = Append(trace, Event("rewrite", 0))
    /\ UNCHANGED << inputs, consumers, referencing_scenes, pc, thrown, sel_scene,
                    node_objects, counters,
                    image_entries, texinfo_texture, results, entity >>

\* splitBufferAndRebuildAccessors() is called on the entry
EntrySplit ==
    /\ \A k \in 1..Len(trace) : trace[k] # Event("split", 0)
    /\ buffer_entries' = [buffer_entries EXCEPT
                             ![0] = SplitBufferAndRebuildAccessors(@, 0)]
    /\ trace' = Append(trace, Event("split", 0))
    /\ UNCHANGED << inputs, consumers, referencing_scenes, pc, thrown, sel_scene,
                    node_objects, counters,
                    image_entries, texinfo_texture, results, entity >>

EntryNext == EntryRewrite \/ EntrySplit

EntrySpec == EntryInit /\ [][EntryNext]_vars

\* ------------------------------------------------------------------------
\* One BufferEntry under the stages, with the identity of the Accessor
\* instances and the calls the entry makes on them and on its splitters
\* ------------------------------------------------------------------------
\* the Accessor instance registered as the id-th of its entry
Instance(accessor, id) ==
    [id             |-> id,
     index          |-> accessor.index,
     buffer_view    |-> accessor.buffer_view,
     byte_offset    |-> accessor.byte_offset,
     component_size |-> accessor.component_size,
     num_components |-> accessor.num_components,
     count          |-> accessor.count]

\* the instances of a list, numbered from first on
Instances(accessors, first) ==
    [k \in DOMAIN accessors |-> Instance(accessors[k], first + k - 1)]

\* rewriteByteOrder: the accessor.modifyByteOrder( modmap ) calls, in order
ModifyByteOrderCalls(entry) ==
    LET orig == GetUnitedOriginalAccessors(entry)
    IN  [k \in 1..Len(orig) |-> Event("modifyByteOrder", orig[k].id)]

\* the splitter is fed every registered accessor and is closed after the
\* accessors have been rebuilt
SplitterCalls_CloseLast(accessors) ==
    << Event("new BufferSplitter", NoIdx) >>
    \o [k \in 1..Len(accessors) |-> Event("update", accessors[k].id)]
    \o [k \in 1..Len(accessors) |-> Event("rebuildAccessor", accessors[k].id)]
    \o << Event("close", NoIdx) >>

\* _splitBufferAndRebuildAccessors( accessors ): the calls on the splitter
SplitterCalls(accessors) ==
    LET orig == GetOriginalAccessors(accessors)
    IN  << Event("new BufferSplitter", NoIdx) >>
        \o [k \in 1..Len(orig) |-> Event("update", orig[k].id)]
        \o << Event("close", NoIdx) >>
        \o [k \in 1..Len(accessors) |-> Event("rebuildAccessor", accessors[k].id)]

InstanceInit ==
    /\ variant = "callback"
    /\ gjson_version = Version20
    /\ gjson_scene = Undefined
    /\ num_scenes = 1
    /\ opts_index = Undefined
    /\ host_little_endian \in BOOLEAN
    /\ pc = "done"
    /\ thrown = "none"
    /\ sel_scene = 0
    /\ node_objects = << SceneNodes(0) >>
    /\ referencing_scenes = {0}
    /\ root_nodes = SceneNodes(0)
    /\ scenes = <<>>
    /\ default_scene_index = NoIdx
    /\ load_count = 0
    /\ load_failed = FALSE
    /\ body_finished = TRUE
    /\ \E attrib \in AccessorLists(MaxAttribAccessors),
          index \in AccessorLists(MaxIndexAccessors) :
          /\ WellTyped(attrib \o index)
          /\ buffer_entries =
                (0 :> [status |-> "loaded", binary |-> BufferContent(0),
                       attrib_accessors |-> Instances(attrib, 1),
                       index_accessors  |-> Instances(index, Len(attrib) + 1)])
    /\ image_entries = <<>>
    /\ texinfo_texture = <<>>
    /\ content = NoContent
    /\ trace = <<>>
    /\ entity = NewEntity
    /\ gltf_scene = NoScene
    /\ builder = NoBuilder
    /\ resource_uri = NoResource
    /\ request_uri = NoRequest
    /\ registration = NoCall
    /\ callback_loader = NoCallback

\* rewriteByteOrder() is called on the entry, before the split
InstanceRewrite ==
    /\ \A k \in 1..Len(trace) : trace[k] \notin {Event("rewrite", 0), Event("split", 0)}
    /\ buffer_entries' = [buffer_entries EXCEPT
                             ![0] = RewriteByteOrder(@, host_little_endian)]
    /\ trace' = Append(trace, Event("rewrite", 0))
                   \o ModifyByteOrderCalls(buffer_entries[0])
    /\ UNCHANGED << inputs, consumers, referencing_scenes, pc, thrown, sel_scene,
                    node_objects, counters,
                    image_entries, texinfo_texture, results, entity >>

\* splitBufferAndRebuildAccessors() is called on the entry
InstanceSplit ==
    /\ \A k \in 1..Len(trace) : trace[k] # Event("split", 0)
    /\ buffer_entries' = [buffer_entries EXCEPT
                             ![0] = SplitBufferAndRebuildAccessors(@, 0)]
    /\ trace' = Append(trace, Event("split", 0))
                   \o SplitterCalls(buffer_entries[0].attrib_accessors)
                   \o SplitterCalls(buffer_entries[0].index_accessors)
    /\ UNCHANGED << inputs, consumers, referencing_scenes, pc, thrown, sel_scene,
                    node_objects, counters,
                    image_entries, texinfo_texture, results, entity >>

InstanceNext == InstanceRewrite \/ InstanceSplit

InstanceSpec == InstanceInit /\ [][InstanceNext]_vars

\* ------------------------------------------------------------------------
\* The Builder of ModelEntity: the primitives of a node tree
\* ------------------------------------------------------------------------
\* null / undefined of an optional field, and a field that is set
Null == <<>>
Some(x) == <<x>>
The(x) == x[1]

\* accessors[a].min / accessors[a].max of the asset (null when absent)
AccessorMin(a) ==
    CASE a = 0 -> <<0, 0, 0>>
      [] a = 1 -> <<2, 2, 2>>
      [] a = 2 -> Null
      [] OTHER -> Null
AccessorMax(a) ==
    CASE a = 0 -> <<2, 4, 6>>
      [] a = 1 -> Null
      [] a = 2 -> <<4, 4, 4>>
      [] OTHER -> Null

\* Builder constructor: the maps and the primitive list are empty;
\* mesh_buffers and textures list the MeshBuffer and Texture instances made
NewBuilder == [made |-> TRUE, primitives |-> <<>>, buffer_map |-> <<>>,
               texture_map |-> <<>>, mesh_buffers |-> <<>>, textures |-> <<>>]

\* MeshBuffer constructor, and the Texture made of the image of a gltf.Texture
NewMeshBuffer(binary, target) == [binary |-> binary, target |-> target]
NewGpuTexture(image) == [image |-> image, flip_y |-> FALSE]

\* a new MeshBuffer is made at every call
FindMeshBuffer_NoLookup(b, buffer, target) ==
    [b |-> [b EXCEPT !.mesh_buffers = Append(@, NewMeshBuffer(buffer.binary, target)),
                     !.buffer_map = (buffer :> (Len(b.mesh_buffers) + 1)) @@ @],
     result |-> Len(b.mesh_buffers) + 1]

\* _findMeshBuffer: the Builder after the call and the MeshBuffer returned
\* (its position in mesh_buffers)
FindMeshBuffer(b, buffer, target) ==
    IF buffer \in DOMAIN b.buffer_map
    THEN [b |-> b, result |-> b.buffer_map[buffer]]
    ELSE [b |-> [b EXCEPT !.mesh_buffers = Append(@, NewMeshBuffer(buffer.binary, target)),
                          !.buffer_map = (buffer :> (Len(b.mesh_buffers) + 1)) @@ @],
          result |-> Len(b.mesh_buffers) + 1]

\* _findTexture: the Builder after the call and the Texture returned (its
\* position in textures)
FindTexture(b, itexture) ==
    IF itexture \in DOMAIN b.texture_map
    THEN [b |-> b, result |-> b.texture_map[itexture]]
    ELSE [b |-> [b EXCEPT !.textures = Append(@, NewGpuTexture(TextureSource(itexture.index))),
                          !.texture_map = (itexture :> (Len(b.textures) + 1)) @@ @],
          result |-> Len(b.textures) + 1]

\* _createTextureParam
CreateTextureParam(b, texinfo) ==
    IF texinfo = Null
    THEN [b |-> b, result |-> Null]
    ELSE Only({ [b |-> r.b, result |-> Some([texture |-> r.result])]
                : r \in {FindTexture(b, texinfo_texture[The(texinfo)].texture)} })

\* the texture parameters of _createProperties, in the order of the calls
RECURSIVE TextureParams(_, _, _)
TextureParams(b, slots, params) ==
    IF slots = <<>> THEN [b |-> b, result |-> params]
    ELSE Only({ TextureParams(r.b, Tail(slots), Append(params, r.result))
                : r \in {CreateTextureParam(b, Head(slots))} })

\* _createProperties: a primitive without a material has no texture
CreateProperties(b, iprim) ==
    IF iprim.material = Null
    THEN [b |-> b, result |-> [textures |-> <<Null, Null, Null, Null, Null>>]]
    ELSE Only({ [b |-> r.b, result |-> [textures |-> r.result]]
                : r \in {TextureParams(b, The(iprim.material).texinfos, <<>>)} })

\* Math.min of no number
Infinity == 1000000

\* Math.min.apply( null, counts )
RECURSIVE MathMin(_)
MathMin(counts) ==
    IF counts = <<>> THEN Infinity
    ELSE LET rest == MathMin(Tail(counts))
         IN  IF Head(counts) < rest THEN Head(counts) ELSE rest

\* the count of the first attribute is taken
CalcNumVertices_FirstCount(iprim) == iprim.attributes[1].accessor.count

\* _calcNumVertices
CalcNumVertices(iprim) ==
    MathMin([k \in DOMAIN iprim.attributes |-> iprim.attributes[k].accessor.count])

\* iprim.attributes[name]: the accessor, or undefined
Attribute(iprim, name) ==
    IF \E k \in DOMAIN iprim.attributes : iprim.attributes[k].name = name
    THEN Some(iprim.attributes[CHOOSE k \in DOMAIN iprim.attributes :
                                   iprim.attributes[k].name = name].accessor)
    ELSE Null

\* the box is made when min is present, whatever max is
CreateBoundingBox_MinOnly(iprim) ==
    LET attrib == Attribute(iprim, "POSITION")
    IN  IF attrib # Null /\ AccessorMin(The(attrib).index) # Null
        THEN << AccessorMin(The(attrib).index),
                IF AccessorMax(The(attrib).index) # Null
                THEN AccessorMax(The(attrib).index)
                ELSE AccessorMin(The(attrib).index) >>
        ELSE Null

\* _createBoundingBox
CreateBoundingBox(iprim) ==
    LET attrib == Attribute(iprim, "POSITION")
    IN  IF attrib # Null
        THEN LET min == AccessorMin(The(attrib).index)
                 max == AccessorMax(The(attrib).index)
             IN  IF min # Null /\ max # Null THEN <<min, max>> ELSE Null
        ELSE Null

\* _createMeshPivot
CreateMeshPivot(iprim) ==
    LET bbox == CreateBoundingBox(iprim)
    IN  IF bbox # Null
        THEN [i \in 1..3 |-> (bbox[1][i] + bbox[2][i]) \div 2]
        ELSE Null

\* _addAttribToInit
AddAttribToInit(b, init, name, accessor) ==
    Only({ [b |-> r.b,
            result |-> [init EXCEPT !.attributes = Append(@,
                          [id          |-> name,
                           buffer      |-> r.result,
                           byte_stride |-> accessor.buffer_view.byte_stride,
                           byte_offset |-> accessor.buffer_view.byte_offset
                                           + accessor.byte_offset])]]
           : r \in {FindMeshBuffer(b, accessor.buffer_view.buffer, "ATTRIBUTE")} })

\* _addIndexToInit
AddIndexToInit(b, init, accessor) ==
    Only({ [b |-> r.b,
            result |-> [init EXCEPT !.index = Some(
                          [buffer      |-> r.result,
                           num_indices |-> accessor.count,
                           byte_offset |-> accessor.buffer_view.byte_offset
                                           + accessor.byte_offset])]]
           : r \in {FindMeshBuffer(b, accessor.buffer_view.buffer, "INDEX")} })

\* the loop of _createMesh over the attributes
RECURSIVE AttribLoop(_, _, _)
AttribLoop(b, init, attributes) ==
    IF attributes = <<>> THEN [b |-> b, result |-> init]
    ELSE Only({ AttribLoop(r.b, r.result, Tail(attributes))
                : r \in {AddAttribToInit(b, init, Head(attributes).name,
                                         Head(attributes).accessor)} })

\* _createMesh: the Mesh is what its Initializer holds
CreateMesh(b, iprim) ==
    LET init == [num_vertices |-> CalcNumVertices(iprim),
                 attributes   |-> <<>>,
                 index        |-> Null]
    IN  Only({ IF iprim.indices # Null
               THEN AddIndexToInit(r.b, r.result, The(iprim.indices))
               ELSE r
               : r \in {AttribLoop(b, init, iprim.attributes)} })

\* _createPrimitive
CreatePrimitive(b, iprim, ntos) ==
    Only({ Only({ [b |-> props.b,
                   result |-> [iprim      |-> iprim.id,
                               mesh       |-> mesh.result,
                               transform  |-> ntos,
                               pivot      |-> CreateMeshPivot(iprim),
                               bbox       |-> CreateBoundingBox(iprim),
                               properties |-> props.result]]
                  : props \in {CreateProperties(mesh.b, iprim)} })
           : mesh \in {CreateMesh(b, iprim)} })

\* the product is taken in the other order
GetNodeToScene_LeftProduct(node, ptos) ==
    IF node.matrix # Null THEN MulAA(node.matrix, ptos) ELSE ptos

\* _getNodeToScene
GetNodeToScene(node, ptos) ==
    IF node.matrix # Null THEN MulAA(ptos, node.matrix) ELSE ptos

\* the loop of _addNode over the primitives of the mesh
RECURSIVE PrimitiveLoop(_, _, _)
PrimitiveLoop(b, primitives, ntos) ==
    IF primitives = <<>> THEN b
    ELSE Only({ PrimitiveLoop([r.b EXCEPT !.primitives = Append(@, r.result)],
                              Tail(primitives), ntos)
                : r \in {CreatePrimitive(b, Head(primitives), ntos)} })

\* _addNode, and the loop over a list of nodes (the root nodes, the
\* children of a node)
RECURSIVE AddNode(_, _, _, _)
RECURSIVE AddNodes(_, _, _, _)
AddNode(b, nodes, n, ptos) ==
    LET node == nodes[n]
        ntos == GetNodeToScene(node, ptos)
    IN  Only({ AddNodes(b1, nodes, node.children, ntos)
               : b1 \in {IF node.mesh # Null
                         THEN PrimitiveLoop(b, The(node.mesh).primitives, ntos)
                         ELSE b} })
AddNodes(b, nodes, list, ptos) ==
    IF list = <<>> THEN b
    ELSE Only({ AddNodes(b1, nodes, Tail(list), ptos)
                : b1 \in {AddNode(b, nodes, Head(list), ptos)} })

\* new Builder( scene, root_nodes )
Build(scene) == AddNodes(NewBuilder, scene.nodes, scene.root_nodes, Identity)

\* ------------------------------------------------------------------------
\* The Builder on the Content of a successful load
\* ------------------------------------------------------------------------
\* the Accessor of an attribute or of the indices after the stages
AttribAccessor(b, k) == buffer_entries[b].attrib_accessors[k]
IndexAccessor(b, k) == buffer_entries[b].index_accessors[k]

\* the gltf.Primitive instances of the meshes of the asset; the texinfos of
\* a material are its baseColorTexture, metallicRoughnessTexture,
\* emissiveTexture, normalTexture and occlusionTexture
GltfPrimitive(p) ==
    CASE p = 0 ->
           [id |-> 0,
            attributes |-> << [name |-> "POSITION", accessor |-> AttribAccessor(0, 1)],
                              [name |-> "NORMAL", accessor |-> AttribAccessor(0, 2)] >>,
            indices  |-> Some(IndexAccessor(0, 1)),
            material |-> Some([texinfos |-> <<Some(1), Null, Some(2), Null, Null>>])]
      [] p = 1 ->
           [id |-> 1,
            attributes |-> << [name |-> "POSITION", accessor |-> AttribAccessor(0, 2)],
                              [name |-> "NORMAL",
                               accessor |-> AttribAccessor(AccessorBuffer(2), 1)] >>,
            indices  |-> Null,
            material |-> Some([texinfos |-> <<Some(NumBuilderTexInfos), Null, Null,
                                              Some(1), Null>>])]
      [] p = 2 ->
           [id |-> 2,
            attributes |-> << [name |-> "TEXCOORD_0", accessor |-> AttribAccessor(0, 1)] >>,
            indices  |-> Null,
            material |-> Null]
      [] OTHER ->
           [id |-> 3,
            attributes |-> << [name |-> "POSITION",
                               accessor |-> AttribAccessor(AccessorBuffer(2), 1)] >>,
            indices  |-> Some(IndexAccessor(0, 1)),
            material |-> Some([texinfos |-> <<Null, Null, Null, Null, Some(2)>>])]

\* the gltf.Mesh instances of the asset
GltfMeshes ==
    { [primitives |-> << GltfPrimitive(0), GltfPrimitive(1) >>],
      [primitives |-> << GltfPrimitive(2), GltfPrimitive(3) >>] }

\* the children of node n of a tree given by the parent of every node, in
\* the order of their indices
ChildrenOf(parent, n) == AscSeq({k \in DOMAIN parent : parent[k] = n})

\* the node trees of MaxBuilderNodes nodes: the parent of a node has a
\* smaller index, NoIdx is the parent of a root node
GltfScenes ==
    { [root_nodes |-> ChildrenOf(parent, NoIdx),
       nodes |-> [n \in 0..(MaxBuilderNodes - 1) |->
                     [matrix   |-> matrix[n],
                      mesh     |-> mesh[n],
                      children |-> ChildrenOf(parent, n)]]]
      : parent \in { f \in [0..(MaxBuilderNodes - 1) -> NoIdx..(MaxBuilderNodes - 2)] :
                        \A n \in DOMAIN f : f[n] < n },
        matrix \in [0..(MaxBuilderNodes - 1) -> {Null} \cup NodeMatrices],
        mesh \in [0..(MaxBuilderNodes - 1) -> {Null} \cup {Some(m) : m \in GltfMeshes}] }

\* the entries as body parse leaves them and the fetches fill them: the
\* accessors 0, 1 (attributes) and 7 (indices) of buffer 0, accessor 2 of
\* the other buffer, TextureInfo k holding a Texture of textures[tex[k]]
RegisteredBuffers ==
    (0 :> [status |-> "loaded", binary |-> BufferContent(0),
           attrib_accessors |-> << NewAccessor(0), NewAccessor(1) >>,
           index_accessors  |-> << NewAccessor(7) >>])
    @@ (AccessorBuffer(2) :>
          [status |-> "loaded", binary |-> BufferContent(AccessorBuffer(2)),
           attrib_accessors |-> << NewAccessor(2) >>,
           index_accessors  |-> <<>>])
RegisteredImages(tex) ==
    [i \in {TextureSource(tex[k]) : k \in DOMAIN tex} |->
        [NewImageEntry EXCEPT
            !.status = "loaded",
            !.texinfo_objects = AscSeq({k \in DOMAIN tex : TextureSource(tex[k]) = i})]]
RegisteredTextures(tex) == [k \in DOMAIN tex |-> NewTextureInfo(tex[k], k)]

BuilderInit ==
    /\ variant = "promise"
    /\ gjson_version = Version20
    /\ gjson_scene = Undefined
    /\ num_scenes = 1
    /\ opts_index = Undefined
    /\ host_little_endian = TRUE
    /\ pc = "done"
    /\ thrown = "none"
    /\ sel_scene = NoIdx
    /\ node_objects = << SceneNodes(0) >>
    /\ referencing_scenes = {0}
    /\ root_nodes = <<>>
    /\ scenes = << SceneNodes(0) >>
    /\ default_scene_index = NoIdx
    /\ load_count = 0
    /\ load_failed = FALSE
    /\ body_finished = TRUE
    /\ \E tex \in { f \in [1..NumBuilderTexInfos -> TextureIdx] : f[1] = 0 } :
       \E st \in {PostProcess(PipelineState(RegisteredBuffers, RegisteredImages(tex),
                                            RegisteredTextures(tex)))} :
          /\ buffer_entries = st.buffers
          /\ image_entries = st.images
          /\ texinfo_texture = st.texinfos
          /\ trace = st.log \o << Event("resolve", NoIdx) >>
    /\ content = NewContent(scenes, default_scene_index)
    /\ entity = NewEntity
    /\ gltf_scene \in GltfScenes
    /\ builder = NoBuilder
    /\ resource_uri = NoResource
    /\ request_uri = NoRequest
    /\ registration = NoCall
    /\ callback_loader = NoCallback

\* _onLoadModel from new Builder( ... ) on: the primitives of the tree
\* become the primitives of the entity
BuildPrimitives ==
    /\ entity.state = "loading"
    /\ ~builder.made
    /\ builder' = Build(gltf_scene)
    /\ entity' = [entity EXCEPT !.state = "built", !.scene = 0,
                                !.primitives = builder'.primitives,
                                !.ptoe_array = PtoeArray(builder'.primitives)]
    /\ UNCHANGED << inputs, request_uri, registration, callback_loader, referencing_scenes, pc, thrown,
                    sel_scene, node_objects, counters, entries, results, trace >>

BuilderNext == BuildPrimitives

BuilderSpec == BuilderInit /\ [][BuilderNext]_vars

\* ------------------------------------------------------------------------
\* ModelEntity: setTransform and getPrimitives, before and after the load
\* ------------------------------------------------------------------------
\* the matrices passed to setTransform
EntityMatrices == {Identity, ShearX, ShearY}

\* an entity whose model has loaded, all its textures on one image
EntityInit ==
    /\ BuilderInit
    /\ DOMAIN image_entries = {0}

\* setTransform( matrix ) is called on the entity
EntitySetTransform(matrix) ==
    /\ entity' = SetTransform(entity, matrix)
    /\ UNCHANGED << inputs, consumers, referencing_scenes, pc, thrown,
                    sel_scene, node_objects, counters, entries, results, trace >>

\* getPrimitives( stage ) is called on the entity
EntityGetPrimitives ==
    /\ entity' = GetPrimitives(entity)
    /\ UNCHANGED << inputs, consumers, referencing_scenes, pc, thrown,
                    sel_scene, node_objects, counters, entries, results, trace >>

EntityNext ==
    \/ BuildPrimitives
    \/ \E matrix \in EntityMatrices : EntitySetTransform(matrix)
    \/ EntityGetPrimitives

EntitySpec == EntityInit /\ [][EntityNext]_vars

\* ------------------------------------------------------------------------
\* Context.solveResourceUri on strings of characters
\* ------------------------------------------------------------------------
MaxUriLen  == 4      \* the resource URIs are all strings up to this length
MaxBaseLen == 3      \* the base URIs are all strings up to this length

LowerCase == {"a", "b", "c", "d", "e", "f", "g", "h", "i", "j", "k", "l", "m",
              "n", "o", "p", "q", "r", "s", "t", "u", "v", "w", "x", "y", "z"}

\* all strings of at most n characters of alphabet
StringsUpTo(alphabet, n) == UNION { [1..len -> alphabet] : len \in 0..n }

\* the resource URIs and base URIs the resolver is called with
DataPrefix == <<"d", "a", "t", "a", ":">>
ResourceUris ==
    StringsUpTo({"a", "1", ":", "/"}, MaxUriLen)
    \cup { pre \o rest : pre \in {DataPrefix, <<"d", "a", "t", "a">>,
                                  <<"D", "a", "t", "a", ":">>,
                                  <<"a", "-", "+", ".", ":", "/", "/">>,
                                  <<"A", ":", "/", "/">>,
                                  <<"a", "_", ":", "/", "/">>},
                         rest \in StringsUpTo({"a", "/"}, 1) }
BaseUris == StringsUpTo({"a", "/", ":"}, MaxBaseLen)

\* /^data:/.test( uri )
TestReDat(uri) ==
    /\ Len(uri) >= Len(DataPrefix)
    /\ \A k \in 1..Len(DataPrefix) : uri[k] = DataPrefix[k]

\* length of the longest run of characters of [-+.0-9a-z] of s that starts
\* at position p
RECURSIVE SchemeRun(_, _)
SchemeRun(s, p) ==
    IF p <= Len(s) /\ s[p] \in LowerCase \cup Digits \cup {"-", "+", "."}
    THEN 1 + SchemeRun(s, p + 1) ELSE 0

\* /^[a-z][-+.0-9a-z]*:\/\//.test( uri ): the run is matched as long as it
\* goes (none of its characters is ':')
TestReAbs(uri) ==
    /\ Len(uri) >= 1
    /\ uri[1] \in LowerCase
    /\ LET n == 1 + SchemeRun(uri, 2)
       IN  /\ n + 3 <= Len(uri)
           /\ uri[n + 1] = ":"
           /\ uri[n + 2] = "/"
           /\ uri[n + 3] = "/"

\* String.lastIndexOf( c ) and String.indexOf( c ): -1 when c is not in s
RECURSIVE LastIndexFrom(_, _, _)
LastIndexFrom(s, c, p) ==
    IF p = 0 THEN 0 - 1
    ELSE IF s[p] = c THEN p - 1
    ELSE LastIndexFrom(s, c, p - 1)
LastIndexOf(s, c) == LastIndexFrom(s, c, Len(s))
RECURSIVE IndexFrom(_, _, _)
IndexFrom(s, c, p) ==
    IF p > Len(s) THEN 0 - 1
    ELSE IF s[p] = c THEN p - 1
    ELSE IndexFrom(s, c, p + 1)
IndexOf(s, c) == IndexFrom(s, c, 1)

\* the base URI is cut after its first '/'
SolveResourceUri_FirstSlash(uri, base) ==
    IF TestReDat(uri) \/ TestReAbs(uri)
    THEN uri
    ELSE LET last == IndexOf(base, "/")
             base_uri == IF last >= 0 THEN SubSeq(base, 1, last + 1) ELSE <<>>
         IN  base_uri \o uri

\* solveResourceUri( uri ) of a Context whose _base_uri is base
SolveResourceUri(uri, base) ==
    IF TestReDat(uri) \/ TestReAbs(uri)
    THEN uri
    ELSE LET last == LastIndexOf(base, "/")
             base_uri == IF last >= 0 THEN SubSeq(base, 1, last + 1) ELSE <<>>
         IN  base_uri \o uri

UriInit ==
    /\ variant = "promise"
    /\ gjson_version = Version20
    /\ gjson_scene = Undefined
    /\ num_scenes = 0
    /\ opts_index = Undefined
    /\ host_little_endian = TRUE
    /\ pc = "parsing"
    /\ thrown = "none"
    /\ sel_scene = NoIdx
    /\ node_objects = <<>>
    /\ referencing_scenes = {}
    /\ root_nodes = <<>>
    /\ scenes = <<>>
    /\ default_scene_index = NoIdx
    /\ load_count = 0
    /\ load_failed = FALSE
    /\ body_finished = FALSE
    /\ buffer_entries = <<>>
    /\ image_entries = <<>>
    /\ texinfo_texture = <<>>
    /\ content = NoContent
    /\ trace = <<>>
    /\ entity = NewEntity
    /\ gltf_scene = NoScene
    /\ builder = NoBuilder
    /\ resource_uri \in [uri : ResourceUris, base_uri : BaseUris]
    /\ request_uri = NoRequest
    /\ registration = NoCall
    /\ callback_loader = NoCallback

\* a Buffer or Image constructor asks for the URI to request
SolveUri ==
    /\ ~request_uri.made
    /\ request_uri' = [made |-> TRUE,
                       uri  |-> SolveResourceUri(resource_uri.uri,
                                                 resource_uri.base_uri)]
    /\ UNCHANGED << inputs, builder, registration, callback_loader, referencing_scenes, pc, thrown, sel_scene,
                    node_objects, counters, entries, results, trace, entity >>

UriNext == SolveUri

UriSpec == UriInit /\ [][UriNext]_vars

\* ------------------------------------------------------------------------
\* Context.addAccessor on its own: a sequence of calls with any usage
\* ------------------------------------------------------------------------
\* calls of addAccessor in one run
MaxRegistrations == 4

\* the usage argument: the two values of the switch and another one
UsageInputs == {"ATTRIBUTE", "INDEX", "OTHER"}

\* a Context during body parse, nothing registered yet
RegisterInit ==
    /\ variant = "promise"
    /\ gjson_version = Version20
    /\ gjson_scene = Undefined
    /\ num_scenes = 0
    /\ opts_index = Undefined
    /\ host_little_endian = TRUE
    /\ pc = "parsing"
    /\ thrown = "none"
    /\ sel_scene = NoIdx
    /\ node_objects = <<>>
    /\ referencing_scenes = {}
    /\ root_nodes = <<>>
    /\ scenes = <<>>
    /\ default_scene_index = NoIdx
    /\ load_count = 0
    /\ load_failed = FALSE
    /\ body_finished = FALSE
    /\ buffer_entries = <<>>
    /\ image_entries = <<>>
    /\ texinfo_texture = <<>>
    /\ content = NoContent
    /\ trace = <<>>
    /\ entity = NewEntity
    /\ gltf_scene = NoScene
    /\ builder = NoBuilder
    /\ resource_uri = NoResource
    /\ request_uri = NoRequest
    /\ registration = NoCall
    /\ callback_loader = NoCallback

\* the Accessor of accessors[a] is constructed (its BufferView looks the
\* buffer up) and ctx.addAccessor( accessor, usage ) is called
CallAddAccessor(a, usage) ==
    /\ NumRegistered(buffer_entries, AscSeq(DOMAIN buffer_entries)) < MaxRegistrations
    /\ LET accessor == NewAccessor(a)
           be       == FindBufferEntries(buffer_entries, accessor.buffer_view.buffer.index)
       IN  /\ buffer_entries' = AddAccessor(be, accessor, usage)
           /\ load_count' = FindBufferCount(buffer_entries, load_count,
                                         accessor.buffer_view.buffer.index)
           /\ registration' = [made |-> TRUE, accessor |-> accessor,
                               usage |-> usage, before |-> be]
    /\ UNCHANGED << inputs, builder, request_uri, callback_loader, referencing_scenes, pc, thrown,
                    sel_scene, node_objects, load_failed, body_finished,
                    image_entries, texinfo_texture, results, trace, entity >>

RegisterNext == \E a \in AccessorIdx, usage \in UsageInputs : CallAddAccessor(a, usage)

RegisterSpec == RegisterInit /\ [][RegisterNext]_vars

\* ------------------------------------------------------------------------
\* ImageEntry.rebuildTextureInfo on its own: the entries of any registration
\* of TextureInfos, each rebuilt up to twice
\* ------------------------------------------------------------------------
\* TextureInfos registered in one run
MaxDedupeTexInfos == 3

\* rebuildTextureInfo: the assignments to texinfo_objects[i].texture, in order
TextureWrites(texinfo_objects) ==
    IF Len(texinfo_objects) <= 1 THEN <<>>
    ELSE [k \in 1..(Len(texinfo_objects) - 1) |->
            Event("texture", texinfo_objects[k + 1])]

DedupeInit ==
    /\ variant = "promise"
    /\ gjson_version = Version20
    /\ gjson_scene = Undefined
    /\ num_scenes = 1
    /\ opts_index = Undefined
    /\ host_little_endian = TRUE
    /\ pc = "done"
    /\ thrown = "none"
    /\ sel_scene = NoIdx
    /\ node_objects = << SceneNodes(0) >>
    /\ referencing_scenes = {0}
    /\ root_nodes = <<>>
    /\ scenes = <<>>
    /\ default_scene_index = NoIdx
    /\ load_count = 0
    /\ load_failed = FALSE
    /\ body_finished = TRUE
    /\ buffer_entries = <<>>
    /\ \E n \in 0..MaxDedupeTexInfos :
       \E tex \in [1..n -> TextureIdx] :
          /\ image_entries = RegisteredImages(tex)
          /\ texinfo_texture = RegisteredTextures(tex)
    /\ content = NoContent
    /\ trace = <<>>
    /\ entity = NewEntity
    /\ gltf_scene = NoScene
    /\ builder = NoBuilder
    /\ resource_uri = NoResource
    /\ request_uri = NoRequest
    /\ registration = NoCall
    /\ callback_loader = NoCallback

\* rebuildTextureInfo() is called on the entry of image i
DedupeEntry(i) ==
    /\ i \in DOMAIN image_entries
    /\ Cardinality({k \in 1..Len(trace) : trace[k] = Event("dedupe", i)}) < 2
    /\ texinfo_texture' = RebuildTextureInfo(image_entries[i].texinfo_objects,
                                             texinfo_texture)
    /\ trace' = Append(trace, Event("dedupe", i))
                   \o TextureWrites(image_entries[i].texinfo_objects)
    /\ UNCHANGED << inputs, consumers, referencing_scenes, pc, thrown, sel_scene,
                    node_objects, counters, buffer_entries, image_entries,
                    results, entity >>

DedupeNext == \E i \in ImageIdx : DedupeEntry(i)

DedupeSpec == DedupeInit /\ [][DedupeNext]_vars

\* ------------------------------------------------------------------------
\* Properties
\* ------------------------------------------------------------------------
SettleOps == {"callback_ok", "callback_failed", "resolve", "reject_failed"}
StageOps  == {"rewrite", "split", "dedupe"}

\* the calls that end a settlement (callback, resolve or reject made by
\* _onFinishLoadSomething), in order
SettleCalls(tr) == SelectSeq(tr, LAMBDA e : e[1] \in SettleOps)
SettleCount(tr) == Len(SettleCalls(tr))

\* the stage calls made so far
StageCalls(tr) == SelectSeq(tr, LAMBDA e : e[1] \in StageOps)

\* number of occurrences of event e
Occurrences(tr, e) == Cardinality({k \in 1..Len(tr) : tr[k] = e})

\* fetches that have reported completion / that are outstanding
BuffersIn(st) == {i \in DOMAIN buffer_entries : buffer_entries[i].status = st}
ImagesIn(st)  == {i \in DOMAIN image_entries : image_entries[i].status = st}
NumFinished   == Cardinality(DOMAIN buffer_entries \ BuffersIn("loading"))
                 + Cardinality(DOMAIN image_entries \ ImagesIn("loading"))
NumOutstanding == Cardinality(BuffersIn("loading")) + Cardinality(ImagesIn("loading"))
SomeFetchFailed == BuffersIn("failed") # {} \/ ImagesIn("failed") # {}

\* C1: the settlement is executed exactly once per load whose body parse
\* completes: never twice (no stage runs twice on an entry either), and not
\* zero times once the body has finished and every fetch has reported.
C1_SettledExactlyOnce ==
    /\ SettleCount(trace) <= 1
    /\ \A k \in 1..Len(trace) :
          trace[k][1] \in StageOps => Occurrences(trace, trace[k]) = 1
    /\ (body_finished /\ NumOutstanding = 0) => SettleCount(trace) = 1

C1_Witness ==
    /\ SettleCount(trace) = 1
    /\ NumFinished >= 3
    /\ SomeFetchFailed

\* C2: a completion event is issued by _onFinishLoadSomething only in a step
\* that ends with body_finished true and the pending counter at 0.
C2_CompletionOnlyWhenAllFinished ==
    [][SettleCount(trace') # SettleCount(trace)
          => body_finished' /\ load_count' = 0]_vars

C2_Witness ==
    /\ SettleCount(trace) = 1
    /\ NumFinished >= 2
    /\ load_count = 0

\* C3: once the body has finished, and provided every started fetch reports
\* completion, the load reaches its completion event.
C3_EventuallySettled ==
    body_finished ~> (SettleCount(trace) = 1)

C3_Witness ==
    /\ SettleCount(trace) = 1
    /\ SomeFetchFailed
    /\ NumFinished >= 2

\* C4: while a failure has been reported and some fetch is still
\* outstanding, no completion event has been signalled.
C4_NoShortCircuit ==
    (load_failed /\ NumOutstanding > 0) => SettleCount(trace) = 0

C4_Witness ==
    /\ body_finished
    /\ 1 \in BuffersIn("failed")
    /\ 0 \in BuffersIn("loading")
    /\ SettleCount(trace) = 0

\* events of the trace: failure report, publication of the result
FailureOps == {"callback_failed", "reject_failed"}
PublishOps == {"callback_ok", "resolve"}
FailureReported == \E k \in 1..Len(trace) : trace[k][1] \in FailureOps
Published == \E k \in 1..Len(trace) : trace[k][1] \in PublishOps

\* the Accessor instances registered with buffer i
AccessorsOf(i) ==
    buffer_entries[i].attrib_accessors \o buffer_entries[i].index_accessors

\* offset in buffers[i] of the first byte accessors[a] addresses
GjsonStart(a) == GjsonAccessor(a).view_offset + GjsonAccessor(a).byte_offset

\* C5: once the load has settled with the failure flag set, no stage has
\* run: the bytes of every buffer are the bytes its fetch delivered, every
\* Accessor still views its source buffer at the offsets of the asset, every
\* TextureInfo holds the Texture it constructed, and no Content exists.
C5_FailureSkipsPostProcessing ==
    FailureReported =>
        /\ StageCalls(trace) = <<>>
        /\ \A i \in DOMAIN buffer_entries :
              /\ buffer_entries[i].binary =
                    IF buffer_entries[i].status = "loaded"
                    THEN BufferContent(i) ELSE <<>>
              /\ \A k \in 1..Len(AccessorsOf(i)) :
                    LET accessor == AccessorsOf(i)[k]
                    IN  /\ accessor.buffer_view.buffer.usage = "SOURCE"
                        /\ accessor.buffer_view.byte_offset
                              = GjsonAccessor(accessor.index).view_offset
                        /\ accessor.byte_offset
                              = GjsonAccessor(accessor.index).byte_offset
        /\ \A k \in 1..Len(texinfo_texture) : texinfo_texture[k].texture.id = k
        /\ ~content.made

C5_Witness ==
    /\ FailureReported
    /\ ~host_little_endian
    /\ \E i \in BuffersIn("loaded") : Len(AccessorsOf(i)) >= 1
    /\ \E i \in DOMAIN image_entries : Len(image_entries[i].texinfo_objects) >= 2

\* the outcome the caller observes
Outcome ==
    IF variant = "callback"
    THEN IF \E k \in 1..Len(trace) : trace[k][1] = "callback_ok" THEN "success"
         ELSE IF \E k \in 1..Len(trace) : trace[k][1] = "callback_failed"
         THEN "failure" ELSE "none"
    ELSE IF PromiseState(trace) = "fulfilled" THEN "success"
         ELSE IF PromiseState(trace) = "rejected" THEN "failure" ELSE "none"

\* C6: a settled load has the outcome success or failure, failure exactly
\* when some buffer or image fetch reported failure; a failure publishes no
\* Content and a success of the promise loader publishes one.
C6_FailureIffSomeFetchFailed ==
    SettleCount(trace) = 1 =>
        /\ Outcome \in {"success", "failure"}
        /\ Outcome = "failure" <=> SomeFetchFailed
        /\ Outcome = "failure" => ~content.made
        /\ (Outcome = "success" /\ variant = "promise") => content.made

\* position of a stage or publication event in the order of the pipeline
StageRank(op) ==
    CASE op = "rewrite" -> 1
      [] op = "split"   -> 2
      [] op = "dedupe"  -> 3
      [] OTHER          -> 4

\* C7: the stage calls and the publication appear in the order rewrite,
\* split, dedupe, publish; at publication every buffer has been rewritten
\* and split once and every image deduplicated once; and the bytes of every
\* sub-buffer are the bytes of its source after the rewrite.
C7_StagesInOrder ==
    /\ \A j, k \in 1..Len(trace) :
          (/\ j < k
           /\ trace[j][1] \in StageOps \cup PublishOps
           /\ trace[k][1] \in StageOps \cup PublishOps)
          => StageRank(trace[j][1]) <= StageRank(trace[k][1])
    /\ Published =>
          /\ \A i \in DOMAIN buffer_entries :
                /\ Occurrences(trace, Event("rewrite", i)) = 1
                /\ Occurrences(trace, Event("split", i)) = 1
                /\ \A k \in 1..Len(AccessorsOf(i)) :
                      LET accessor == AccessorsOf(i)[k]
                          size == GjsonAccessor(accessor.index).count
                                  * GjsonAccessor(accessor.index).component_size
                      IN  \A j \in 1..size :
                             accessor.buffer_view.buffer.binary[
                                 accessor.buffer_view.byte_offset + j]
                             = buffer_entries[i].binary[
                                 GjsonStart(accessor.index) + j]
          /\ \A i \in DOMAIN image_entries :
                Occurrences(trace, Event("dedupe", i)) = 1

C7_Witness ==
    /\ Published
    /\ ~host_little_endian
    /\ Cardinality(DOMAIN buffer_entries) >= 2
    /\ Cardinality(DOMAIN image_entries) >= 1
    /\ \E i \in DOMAIN buffer_entries : Len(AccessorsOf(i)) >= 1

\* C8: with asset.version "1.0" the load fails with the version error at
\* once: nothing is constructed, no fetch is started, no stage runs, for
\* the glTFLoader constructor and for Context.load alike.
C8_OldVersionAborts ==
    (gjson_version = Version10 /\ pc # "new") =>
        /\ variant = "callback" => thrown = "glTF version error"
        /\ variant = "promise" =>
              /\ PromiseState(trace) = "rejected"
              /\ trace[1] = Event("reject_version", NoIdx)
        /\ node_objects = <<>>
        /\ buffer_entries = <<>>
        /\ image_entries = <<>>
        /\ load_count = 0
        /\ StageCalls(trace) = <<>>
        /\ ~content.made

\* the index _load_scene is to use: options.index, else gjson.scene, else 0
ChosenSceneIndex ==
    IF opts_index # Undefined THEN opts_index[1]
    ELSE IF gjson_scene # Undefined THEN gjson_scene[1]
    ELSE 0

\* the index the consumer is to use: its argument, else gjson.scene, else 0
ChosenConsumerIndex ==
    IF entity.index # Undefined THEN entity.index[1]
    ELSE IF gjson_scene # Undefined THEN gjson_scene[1]
    ELSE 0

\* the glTFLoader constructor, given a supported version: the chosen index
\* is used if it is in [0, scenes.length), and otherwise the constructor
\* throws before a node is built or a fetch is started
LoaderSceneRule ==
    (variant = "callback" /\ gjson_version = Version20 /\ pc # "new") =>
        IF ChosenSceneIndex >= 0 /\ ChosenSceneIndex < num_scenes
        THEN /\ thrown # "glTF scene does not exist"
             /\ sel_scene = ChosenSceneIndex
        ELSE /\ pc = "thrown"
             /\ thrown = "glTF scene does not exist"
             /\ node_objects = <<>>
             /\ buffer_entries = <<>>
             /\ image_entries = <<>>
             /\ load_count = 0
             /\ trace = <<>>

\* the consumer fails for an index outside [0, scenes.length)
ConsumerSceneRule ==
    (/\ entity.state # "loading"
     /\ ~(ChosenConsumerIndex >= 0 /\ ChosenConsumerIndex < Len(content.scenes)))
    => (entity.state = "TypeError" /\ entity.primitives = <<>>)

\* what _onLoadModel does: nothing with an empty scene list, scene 0 for a
\* negative index, a TypeError for an index >= scenes.length
ConsumerSceneBehaviour ==
    entity.state # "loading" =>
        IF Len(content.scenes) = 0
        THEN entity.state = "no_scene" /\ entity.primitives = <<>>
        ELSE IF ChosenConsumerIndex < 0
        THEN /\ entity.state = "built"
             /\ entity.scene = 0
             /\ entity.primitives = content.scenes[1]
        ELSE IF ChosenConsumerIndex >= Len(content.scenes)
        THEN entity.state = "TypeError" /\ entity.primitives = <<>>
        ELSE /\ entity.state = "built"
             /\ entity.scene = ChosenConsumerIndex
             /\ entity.primitives = content.scenes[ChosenConsumerIndex + 1]

Succeeded == Published /\ Outcome = "success"

\* C10: after a successful load every TextureInfo registered for an image
\* holds one Texture, the one constructed by the TextureInfo registered
\* first for that image.
C10_TexturesShareFirstRegistered ==
    Succeeded =>
        \A i \in DOMAIN image_entries :
            \A k \in 1..Len(image_entries[i].texinfo_objects) :
                LET first == image_entries[i].texinfo_objects[1]
                    info  == image_entries[i].texinfo_objects[k]
                IN  /\ texinfo_texture[info].texture.id = first
                    /\ texinfo_texture[info].texture = texinfo_texture[first].texture
                    /\ TextureSource(texinfo_texture[info].texture.index) = i

C10_Witness ==
    /\ Succeeded
    /\ \E i \in DOMAIN image_entries :
          /\ Len(image_entries[i].texinfo_objects) >= 2
          /\ texinfo_texture[image_entries[i].texinfo_objects[2]].texture.id
                = image_entries[i].texinfo_objects[1]

\* number of calls of rewriteByteOrder / splitBufferAndRebuildAccessors made
\* on the entry of buffer i
RewritesDone(i) == Occurrences(trace, Event("rewrite", i))
SplitsDone(i) == Occurrences(trace, Event("split", i))

\* the Accessors registered with buffer i as they were constructed
AttribOriginals(i) ==
    [k \in DOMAIN buffer_entries[i].attrib_accessors |->
        NewAccessor(buffer_entries[i].attrib_accessors[k].index)]
IndexOriginals(i) ==
    [k \in DOMAIN buffer_entries[i].index_accessors |->
        NewAccessor(buffer_entries[i].index_accessors[k].index)]

\* the multi-byte groups of buffer i some registered Accessor addresses
AddressedGroups(i) ==
    UNION { ComponentGroups((AttribOriginals(i) \o IndexOriginals(i))[k])
            : k \in 1..(Len(AttribOriginals(i)) + Len(IndexOriginals(i))) }

\* C11: after one endian rewrite on a big-endian host every byte of an
\* addressed 2-byte or 4-byte group holds the byte of the mirrored position
\* of its group (the group is reversed exactly once), and every byte outside
\* of those groups is unchanged; on a little-endian host no byte changes.
C11_GroupsSwappedExactlyOnce ==
    RewritesDone(0) = 1 =>
        \A p \in 0..(BufferByteLength - 1) :
            IF host_little_endian
            THEN buffer_entries[0].binary[p + 1] = BufferContent(0)[p + 1]
            ELSE IF \E g \in AddressedGroups(0) : p >= g[1] /\ p < g[1] + g[2]
            THEN \A g \in AddressedGroups(0) :
                    (p >= g[1] /\ p < g[1] + g[2]) =>
                    buffer_entries[0].binary[p + 1]
                        = BufferContent(0)[2 * g[1] + g[2] - p]
            ELSE buffer_entries[0].binary[p + 1] = BufferContent(0)[p + 1]

C11_Witness ==
    /\ RewritesDone(0) = 1
    /\ ~host_little_endian
    /\ Len(buffer_entries[0].attrib_accessors) = 2
    /\ buffer_entries[0].attrib_accessors[1].index = 1
    /\ buffer_entries[0].attrib_accessors[2].index = 0
    /\ Len(buffer_entries[0].index_accessors) = 1
    /\ buffer_entries[0].index_accessors[1].index = 0
    /\ buffer_entries[0].binary = << 1, 0, 3, 2, 5, 4, 6, 7 >>

\* source range of an Accessor as constructed, and the range of the buffer
\* its view points at that the Accessor occupies now
SrcRange(accessor) ==
    << SrcStart(NewAccessor(accessor.index)), SrcEnd(NewAccessor(accessor.index)) >>
DstRange(accessor) == << SrcStart(accessor), SrcEnd(accessor) >>
RangesMeet(r, q) == r[1] < q[2] /\ q[1] < r[2]

\* C12 as stated: after the split, any two Accessors of distinct indices
\* registered with the buffer occupy the same destination range of the same
\* sub-buffer if their source ranges were identical, and disjoint
\* destination ranges otherwise.
C12_CollisionFreePacking ==
    SplitsDone(0) = 1 =>
        \A j, k \in 1..Len(AccessorsOf(0)) :
            LET A == AccessorsOf(0)[j]
                B == AccessorsOf(0)[k]
            IN  A.index # B.index =>
                IF SrcRange(A) = SrcRange(B)
                THEN /\ DstRange(A) = DstRange(B)
                     /\ A.buffer_view.buffer = B.buffer_view.buffer
                ELSE \/ A.buffer_view.buffer # B.buffer_view.buffer
                     \/ ~RangesMeet(DstRange(A), DstRange(B))

\* the Accessors of one list after the split: all view the sub-buffer of
\* the usage; destination ranges are equal exactly when the source ranges
\* were, and meet exactly when the source ranges met
PassKeepsOverlaps(accessors, usage) ==
    \A j, k \in 1..Len(accessors) :
        /\ accessors[j].buffer_view.buffer.usage = usage
        /\ accessors[j].buffer_view.buffer = accessors[k].buffer_view.buffer
        /\ SrcRange(accessors[j]) = SrcRange(accessors[k])
              <=> DstRange(accessors[j]) = DstRange(accessors[k])
        /\ RangesMeet(SrcRange(accessors[j]), SrcRange(accessors[k]))
              <=> RangesMeet(DstRange(accessors[j]), DstRange(accessors[k]))

\* C12 as the split has it: within one usage, destination ranges are equal
\* iff the source ranges were identical and overlap iff the source ranges
\* overlapped; the two usages get separate sub-buffers.
C12_PackingKeepsOverlaps ==
    SplitsDone(0) = 1 =>
        /\ PassKeepsOverlaps(buffer_entries[0].attrib_accessors, "ATTRIBUTE")
        /\ PassKeepsOverlaps(buffer_entries[0].index_accessors, "INDEX")

C12_Witness ==
    /\ SplitsDone(0) = 1
    /\ Len(buffer_entries[0].attrib_accessors) = 2
    /\ buffer_entries[0].attrib_accessors[1].index = 1
    /\ buffer_entries[0].attrib_accessors[2].index = 0
    /\ DstRange(buffer_entries[0].attrib_accessors[1]) = << 2, 6 >>
    /\ DstRange(buffer_entries[0].attrib_accessors[2]) = << 0, 4 >>
    /\ Len(buffer_entries[0].attrib_accessors[1].buffer_view.buffer.binary) = 6

\* distance of the elements of an Accessor of the output
StrideOf(accessor) ==
    IF accessor.buffer_view.byte_stride # 0
    THEN accessor.buffer_view.byte_stride
    ELSE accessor.component_size * accessor.num_components

\* C13 as stated: after the split, for every Accessor the offset of the
\* view plus count times the effective stride is within the byte length of
\* the buffer the view points at.
C13_CountStridesFit ==
    SplitsDone(0) = 1 =>
        \A k \in 1..Len(AccessorsOf(0)) :
            LET A == AccessorsOf(0)[k]
            IN  A.buffer_view.byte_offset + A.count * StrideOf(A)
                    <= Len(A.buffer_view.buffer.binary)

\* C13 as the split has it: the last element of every Accessor ends within
\* the buffer, that is offset + (count - 1) * effective stride + element
\* size is within the byte length; the bound of the claim holds for the
\* Accessors whose stride is their element size.
C13_LastElementFits ==
    SplitsDone(0) = 1 =>
        \A k \in 1..Len(AccessorsOf(0)) :
            LET A == AccessorsOf(0)[k]
                element_size == A.component_size * A.num_components
            IN  /\ A.byte_offset = 0
                /\ A.buffer_view.byte_offset + (A.count - 1) * StrideOf(A)
                      + element_size <= Len(A.buffer_view.buffer.binary)
                /\ StrideOf(A) = element_size =>
                      A.buffer_view.byte_offset + A.count * StrideOf(A)
                          <= Len(A.buffer_view.buffer.binary)

C13_Witness ==
    /\ SplitsDone(0) = 1
    /\ Len(buffer_entries[0].attrib_accessors) = 2
    /\ buffer_entries[0].attrib_accessors[1].index = 3
    /\ buffer_entries[0].attrib_accessors[2].index = 4
    /\ buffer_entries[0].attrib_accessors[2].buffer_view.byte_offset = 2
    /\ buffer_entries[0].attrib_accessors[2].buffer_view.byte_stride = 4
    /\ Len(buffer_entries[0].attrib_accessors[2].buffer_view.buffer.binary) = 8

\* byte length of the sub-buffer a pass made for a list of Accessors (no
\* bytes for an empty list), and the number of bytes of the source buffer
\* that lie in the source range of some Accessor of the list
PassLength(accessors) ==
    IF accessors = <<>> THEN 0
    ELSE Len(accessors[1].buffer_view.buffer.binary)
CoveredBytes(accessors) ==
    Cardinality({ p \in 0..(BufferByteLength - 1) :
                    \E k \in 1..Len(accessors) :
                        /\ SrcRange(accessors[k])[1] <= p
                        /\ p < SrcRange(accessors[k])[2] })

\* C14 as stated: the byte lengths of the sub-buffers of the attribute pass
\* and of the index pass together do not exceed the byte length of the
\* input buffer.
C14_PackingNeverInflates ==
    SplitsDone(0) = 1 =>
        PassLength(buffer_entries[0].attrib_accessors)
        + PassLength(buffer_entries[0].index_accessors) <= BufferByteLength

\* the sub-buffer of a pass holds the bytes its Accessors cover, and less
\* than 4 bytes of padding in front of every run but the first
PassIsPacked(accessors) ==
    /\ PassLength(accessors) >= CoveredBytes(accessors)
    /\ accessors # <<>> =>
          PassLength(accessors) <= CoveredBytes(accessors) + 3 * (Len(accessors) - 1)

\* C14 as the split has it: each pass copies the bytes its own Accessors
\* cover (plus alignment padding between runs), whatever the other pass
\* copies; the two sub-buffers together may exceed the input buffer.
C14_EachPassIsPacked ==
    SplitsDone(0) = 1 =>
        /\ PassIsPacked(buffer_entries[0].attrib_accessors)
        /\ PassIsPacked(buffer_entries[0].index_accessors)

C14_Witness ==
    /\ SplitsDone(0) = 1
    /\ Len(buffer_entries[0].attrib_accessors) = 2
    /\ buffer_entries[0].attrib_accessors[1].index = 0
    /\ buffer_entries[0].attrib_accessors[2].index = 1
    /\ Len(buffer_entries[0].index_accessors) = 1
    /\ buffer_entries[0].index_accessors[1].index = 0
    /\ PassLength(buffer_entries[0].attrib_accessors) = 6
    /\ PassLength(buffer_entries[0].index_accessors) = 4

\* the Accessors of one list after the split: each views the sub-buffer of
\* the usage with the stride of the asset and no offset of its own, each of
\* its elements reads the bytes it read in the source buffer, and Accessors
\* whose source ranges overlap or abut keep their distance
PassKeepsLayout(accessors, usage, binary) ==
    \A k \in 1..Len(accessors) :
        LET A == accessors[k]
        IN  /\ A.buffer_view.buffer.usage = usage
            /\ A.buffer_view.byte_stride = GjsonAccessor(A.index).byte_stride
            /\ A.byte_offset = 0
            /\ \A e \in 0..(A.count - 1) :
                  \A j \in 1..(A.component_size * A.num_components) :
                      A.buffer_view.buffer.binary[
                          A.buffer_view.byte_offset + e * StrideOf(A) + j]
                      = binary[SrcRange(A)[1] + e * StrideOf(A) + j]
            /\ \A m \in 1..Len(accessors) :
                  LET B == accessors[m]
                  IN  (/\ SrcRange(A)[1] <= SrcRange(B)[2]
                       /\ SrcRange(B)[1] <= SrcRange(A)[2])
                      => /\ B.buffer_view.buffer = A.buffer_view.buffer
                         /\ B.buffer_view.byte_offset - A.buffer_view.byte_offset
                               = SrcRange(B)[1] - SrcRange(A)[1]

\* C15: the split keeps the layout of every coalesced run, for both lists;
\* the interleaved Accessors 3 and 4 alone (stride 4, offsets 0 and 2 over
\* 8 bytes) end in one sub-buffer of 8 bytes at offsets 0 and 2.
C15_SplitKeepsLayout ==
    SplitsDone(0) = 1 =>
        /\ PassKeepsLayout(buffer_entries[0].attrib_accessors, "ATTRIBUTE",
                           buffer_entries[0].binary)
        /\ PassKeepsLayout(buffer_entries[0].index_accessors, "INDEX",
                           buffer_entries[0].binary)
        /\ (/\ Len(buffer_entries[0].attrib_accessors) = 2
            /\ buffer_entries[0].attrib_accessors[1].index = 3
            /\ buffer_entries[0].attrib_accessors[2].index = 4)
           => /\ buffer_entries[0].attrib_accessors[1].buffer_view.byte_offset = 0
              /\ buffer_entries[0].attrib_accessors[2].buffer_view.byte_offset = 2
              /\ PassLength(buffer_entries[0].attrib_accessors) = 8

C15_Witness ==
    /\ SplitsDone(0) = 1
    /\ RewritesDone(0) = 1
    /\ ~host_little_endian
    /\ Len(buffer_entries[0].attrib_accessors) = 2
    /\ buffer_entries[0].attrib_accessors[1].index = 3
    /\ buffer_entries[0].attrib_accessors[2].index = 4
    /\ Len(buffer_entries[0].index_accessors) = 1
    /\ buffer_entries[0].index_accessors[1].index = 1
    /\ buffer_entries[0].index_accessors[1].buffer_view.byte_offset = 0
    /\ buffer_entries[0].index_accessors[1].buffer_view.buffer.binary
          = << 3, 2, 5, 4 >>

\* C20: after two calls of rewriteByteOrder the bytes of the buffer are
\* the bytes that were fetched.
C20_RewriteTwiceRestores ==
    RewritesDone(0) = 2 => buffer_entries[0].binary = BufferContent(0)

C20_Witness ==
    /\ RewritesDone(0) = 2
    /\ SplitsDone(0) = 0
    /\ ~host_little_endian
    /\ Len(buffer_entries[0].attrib_accessors) = 2
    /\ buffer_entries[0].attrib_accessors[1].index = 6
    /\ buffer_entries[0].attrib_accessors[2].index = 0
    /\ Len(buffer_entries[0].index_accessors) = 1
    /\ buffer_entries[0].index_accessors[1].index = 7
    /\ buffer_entries[0].binary = BufferContent(0)

\* the entries a step creates
NewBufferSlots == DOMAIN buffer_entries' \ DOMAIN buffer_entries
NewImageSlots  == DOMAIN image_entries' \ DOMAIN image_entries

\* sequence s is the beginning of sequence t
IsPrefix(s, t) == Len(s) <= Len(t) /\ \A k \in 1..Len(s) : s[k] = t[k]

\* C16: during body parse an entry, once created, stays the entry of its
\* index (it is not replaced by a new one: its status and bytes stay and
\* what was registered with it stays registered), and the pending counter
\* goes up by exactly the number of entries a step creates: a call of
\* findBuffer / findImage for an index that has an entry starts no fetch.
C16_OneEntryOneFetchPerIndex ==
    [][ pc = "parsing" =>
          /\ load_count' = load_count + Cardinality(NewBufferSlots)
                                      + Cardinality(NewImageSlots)
          /\ Cardinality(NewBufferSlots) + Cardinality(NewImageSlots) <= 1
          /\ pc' = "parsing" =>
                /\ \A i \in DOMAIN buffer_entries :
                      /\ i \in DOMAIN buffer_entries'
                      /\ buffer_entries'[i].status = buffer_entries[i].status
                      /\ buffer_entries'[i].binary = buffer_entries[i].binary
                      /\ IsPrefix(buffer_entries[i].attrib_accessors,
                                  buffer_entries'[i].attrib_accessors)
                      /\ IsPrefix(buffer_entries[i].index_accessors,
                                  buffer_entries'[i].index_accessors)
                /\ \A i \in DOMAIN image_entries :
                      /\ i \in DOMAIN image_entries'
                      /\ image_entries'[i].status = image_entries[i].status
                      /\ IsPrefix(image_entries[i].texinfo_objects,
                                  image_entries'[i].texinfo_objects)
      ]_vars

\* findImage was called twice for one index (two TextureInfo instances of
\* one image) and findBuffer for a buffer: one fetch each
C16_Witness ==
    /\ pc = "parsing"
    /\ \E i \in DOMAIN image_entries :
          /\ Len(image_entries[i].texinfo_objects) = 2
          /\ DOMAIN image_entries = {i}
    /\ \E i \in DOMAIN buffer_entries :
          /\ Len(AccessorsOf(i)) = 1
          /\ DOMAIN buffer_entries = {i}
    /\ load_count = 2

\* C18: the pending counter is the number of fetches that were started and
\* have not reported completion, whether the reports so far were successes
\* or failures; it is never negative.
C18_CounterIsOutstanding ==
    /\ load_count = NumOutstanding
    /\ load_count >= 0
    /\ load_count + NumFinished
          = Cardinality(DOMAIN buffer_entries) + Cardinality(DOMAIN image_entries)

\* four fetches were started, one has succeeded and one has failed
C18_Witness ==
    /\ load_count = 2
    /\ NumFinished = 2
    /\ Cardinality(BuffersIn("failed") \cup ImagesIn("failed")) = 1
    /\ BuffersIn("loaded") # {}

\* the scene the load is for: the scene _load_scene has chosen (callback
\* loader), the scene a ModelEntity without an index option uses (promise
\* loader)
SelectedScene ==
    IF variant = "callback" THEN sel_scene
    ELSE ConsumerSceneIndex(Undefined, default_scene_index)

\* the completion event was issued by the body-finish step: it is the last
\* call made, it is the only settlement, it publishes the result, and no
\* fetch has reported completion
SettledByBodyFinish ==
    /\ SettleCount(trace) = 1
    /\ trace[Len(trace)][1] \in PublishOps
    /\ NumFinished = 0
    /\ variant = "promise" => content.made

\* C19 as claimed: when body parse has ended and the construction of the
\* selected scene looked no buffer and no image up, the completion event
\* has been issued by the body-finish step.
C19_SelectedSceneSettlesAtOnce ==
    (pc = "done" /\ SelectedScene \notin referencing_scenes) => SettledByBodyFinish

\* C19: when body parse has ended and no scene that was constructed (the
\* selected scene by the callback loader, every scene of the asset by the
\* promise loader) looked a buffer or an image up, the completion event has
\* been issued by the body-finish step, with no fetch completion before it.
C19_NoReferenceSettlesAtOnce ==
    (pc = "done" /\ referencing_scenes = {}) => SettledByBodyFinish

\* the promise loader has constructed every scene of an asset none of which
\* references a buffer or an image, and has resolved
C19_Witness ==
    /\ pc = "done"
    /\ variant = "promise"
    /\ Len(node_objects) = num_scenes
    /\ num_scenes >= 2
    /\ referencing_scenes = {}
    /\ trace = << Event("resolve", NoIdx) >>

\* the entry of buffer i as the stages make it of what was registered with
\* it during body parse and of the bytes of the asset, whatever the order
\* the fetches reported in
ExpectedBufferEntry(i) ==
    LET registered == [status           |-> "loaded",
                       binary           |-> BufferContent(i),
                       attrib_accessors |-> AttribOriginals(i),
                       index_accessors  |-> IndexOriginals(i)]
    IN  Only({ SplitBufferAndRebuildAccessors(e, i)
               : e \in {RewriteByteOrder(registered, host_little_endian)} })

\* the outcome as the asset and the set of failed fetches determine it
ExpectedOutcome ==
    IF SomeFetchFailed
       \/ (variant = "promise" /\ VersionTooOld(LoadVersion(gjson_version)))
    THEN "failure" ELSE "success"

\* C17: the result of a load is a function of the asset and of which
\* fetches failed, not of the order of the completions: the outcome of a
\* settled load is failure exactly when the asset or some fetch makes it
\* so, and once the result is published every buffer entry is what the
\* stages make of its registrations and the bytes of the asset, and every
\* TextureInfo holds the Texture of the first TextureInfo of its image.
C17_ResultIndependentOfOrder ==
    /\ SettleCount(trace) = 1 => Outcome = ExpectedOutcome
    /\ Published =>
          /\ \A i \in DOMAIN buffer_entries :
                buffer_entries[i] = ExpectedBufferEntry(i)
          /\ \A i \in DOMAIN image_entries :
                /\ image_entries[i].status = "loaded"
                /\ \A k \in 1..Len(image_entries[i].texinfo_objects) :
                      texinfo_texture[image_entries[i].texinfo_objects[k]].texture.id
                          = image_entries[i].texinfo_objects[1]

\* a result published after the fetches of two buffers and an image have
\* reported (in one of six orders), on a big-endian host
C17_Witness ==
    /\ Published
    /\ Outcome = "success"
    /\ ~host_little_endian
    /\ Cardinality(DOMAIN buffer_entries) = 2
    /\ \E i \in DOMAIN buffer_entries : Len(AccessorsOf(i)) = 1
    /\ \E i \in DOMAIN image_entries : Len(image_entries[i].texinfo_objects) = 2

\* asset.version is missing or does not match /^(\d+)\.(\d+)/
VersionMalformed == VersionExec(gjson_version) = <<>>

\* C21: when asset.version is missing or malformed, the load fails with the
\* version error (the error of major < 2) and no fetch is started.
C21_MalformedVersionIsVersionError ==
    (VersionMalformed /\ pc # "new") =>
        /\ IF variant = "callback"
           THEN thrown = "glTF version error"
           ELSE /\ PromiseCalls(trace) # <<>>
                /\ PromiseCalls(trace)[1][1] = "reject_version"
        /\ buffer_entries = <<>>
        /\ image_entries = <<>>
        /\ load_count = 0

\* C22: ModelEntity.getPrimitives returns a non-empty list only after the
\* load promise was resolved as its first settlement, by a load none of
\* whose fetches failed; before that, and after a failed load, the list is
\* empty. The primitives are those of a scene of the published Content.
C22_PrimitivesOnlyAfterSuccess ==
    entity.primitives # <<>> =>
        /\ variant = "promise"
        /\ PromiseCalls(trace) # <<>>
        /\ PromiseCalls(trace)[1][1] = "resolve"
        /\ ~SomeFetchFailed
        /\ NumOutstanding = 0
        /\ content.made
        /\ entity.scene + 1 \in DOMAIN content.scenes
        /\ entity.primitives = content.scenes[entity.scene + 1]

\* the entity shows the primitives of a load with three fetches
C22_Witness ==
    /\ entity.state = "built"
    /\ entity.primitives # <<>>
    /\ NumFinished = 3

\* the gltf.Primitive instances of the tree, one for every mesh primitive of
\* every node
TreePrimitives ==
    UNION { IF gltf_scene.nodes[n].mesh = Null THEN {}
            ELSE { The(gltf_scene.nodes[n].mesh).primitives[k]
                   : k \in DOMAIN The(gltf_scene.nodes[n].mesh).primitives }
            : n \in DOMAIN gltf_scene.nodes }

\* the sub-buffers, gltf.Texture instances and images the tree refers to
TreeBuffers ==
    UNION { { iprim.attributes[k].accessor.buffer_view.buffer
              : k \in DOMAIN iprim.attributes }
            \cup (IF iprim.indices = Null THEN {}
                  ELSE {The(iprim.indices).buffer_view.buffer})
            : iprim \in TreePrimitives }
TreeTextures ==
    UNION { IF iprim.material = Null THEN {}
            ELSE { texinfo_texture[The(The(iprim.material).texinfos[k])].texture
                   : k \in { j \in DOMAIN The(iprim.material).texinfos :
                               The(iprim.material).texinfos[j] # Null } }
            : iprim \in TreePrimitives }

\* C23: the Builder has made exactly one MeshBuffer for every sub-buffer and
\* one Texture for every gltf.Texture the tree refers to, however many
\* accessors, TextureInfo instances and primitives refer to them; every
\* attribute and index of an emitted primitive uses the MeshBuffer made of
\* the bytes of its sub-buffer; and no two Textures are made of one image.
C23_OneMeshBufferOneTexture ==
    builder.made =>
        /\ Len(builder.mesh_buffers) = Cardinality(TreeBuffers)
        /\ Len(builder.textures) = Cardinality(TreeTextures)
        /\ \A i, j \in DOMAIN builder.textures :
              builder.textures[i].image = builder.textures[j].image => i = j
        /\ \A k \in DOMAIN builder.primitives :
              LET oprim == builder.primitives[k]
                  iprim == GltfPrimitive(oprim.iprim)
              IN  /\ \A a \in DOMAIN oprim.mesh.attributes :
                        builder.mesh_buffers[oprim.mesh.attributes[a].buffer]
                          = [binary |-> iprim.attributes[a].accessor.buffer_view.buffer.binary,
                             target |-> "ATTRIBUTE"]
                  /\ oprim.mesh.index # Null =>
                        builder.mesh_buffers[The(oprim.mesh.index).buffer]
                          = [binary |-> The(iprim.indices).buffer_view.buffer.binary,
                             target |-> "INDEX"]

\* six primitives were emitted that share three sub-buffers and two images
C23_Witness ==
    /\ builder.made
    /\ Len(builder.primitives) = 6
    /\ Len(builder.mesh_buffers) = 3
    /\ Len(builder.textures) = 2
    /\ Cardinality({texinfo_texture[k].texture.index : k \in DOMAIN texinfo_texture}) = 2

\* the parent of node n in the tree (NoIdx for a root node), the path from
\* its root node to n, and the position of x in a list
ParentOf(n) ==
    IF \E m \in DOMAIN gltf_scene.nodes :
          \E k \in DOMAIN gltf_scene.nodes[m].children :
              gltf_scene.nodes[m].children[k] = n
    THEN CHOOSE m \in DOMAIN gltf_scene.nodes :
          \E k \in DOMAIN gltf_scene.nodes[m].children :
              gltf_scene.nodes[m].children[k] = n
    ELSE NoIdx
RECURSIVE PathTo(_)
PathTo(n) == IF ParentOf(n) = NoIdx THEN <<n>> ELSE Append(PathTo(ParentOf(n)), n)
PositionIn(list, x) == CHOOSE k \in DOMAIN list : list[k] = x

\* the list node n is an element of: the root nodes or the children of its
\* parent
SiblingsOf(n) ==
    IF ParentOf(n) = NoIdx THEN gltf_scene.root_nodes
    ELSE gltf_scene.nodes[ParentOf(n)].children

\* depth-first pre-order: m comes before n when m is an ancestor of n, or
\* when, where their paths part, the path of m takes the earlier sibling
ComesBefore(m, n) ==
    LET pm == PathTo(m)
        pn == PathTo(n)
    IN  /\ m # n
        /\ \/ /\ Len(pm) < Len(pn)
              /\ \A j \in 1..Len(pm) : pm[j] = pn[j]
           \/ \E j \in 1..Len(pm) :
                 /\ j <= Len(pn)
                 /\ \A i \in 1..(j - 1) : pm[i] = pn[i]
                 /\ pm[j] # pn[j]
                 /\ PositionIn(SiblingsOf(pm[j]), pm[j])
                      < PositionIn(SiblingsOf(pn[j]), pn[j])

\* the nodes in depth-first pre-order
PreOrder ==
    [r \in 1..Cardinality(DOMAIN gltf_scene.nodes) |->
        CHOOSE n \in DOMAIN gltf_scene.nodes :
            Cardinality({m \in DOMAIN gltf_scene.nodes : ComesBefore(m, n)}) = r - 1]

\* the product of the local matrices along a path, from the root node on
RECURSIVE PathProduct(_)
PathProduct(path) ==
    IF path = <<>> THEN Identity
    ELSE LET front == PathProduct(SubSeq(path, 1, Len(path) - 1))
             local == gltf_scene.nodes[path[Len(path)]].matrix
         IN  IF local = Null THEN front ELSE MulAA(front, local)

\* the primitives of the nodes of a list with the transform of their node
RECURSIVE ExpectedPrimitives(_)
ExpectedPrimitives(order) ==
    IF order = <<>> THEN <<>>
    ELSE LET n == Head(order)
             mesh == gltf_scene.nodes[n].mesh
         IN  (IF mesh = Null THEN <<>>
              ELSE [k \in DOMAIN The(mesh).primitives |->
                       << The(mesh).primitives[k].id, PathProduct(PathTo(n)) >>])
             \o ExpectedPrimitives(Tail(order))

\* C24: the emitted primitives are those of the nodes in depth-first
\* pre-order, the primitives of a node in the order of its mesh, and the
\* transform of each is the product of the local matrices on the path from
\* the root node to its node, taken from the root on (a node without a
\* matrix contributes nothing).
C24_PreOrderAndPathProduct ==
    builder.made =>
        [k \in DOMAIN builder.primitives |->
            << builder.primitives[k].iprim, builder.primitives[k].transform >>]
          = ExpectedPrimitives(PreOrder)

\* node 2 is the child of root node 0 and is visited before root node 1;
\* its primitives carry the product of the matrices of 0 and 2, in that
\* order
C24_Witness ==
    /\ builder.made
    /\ gltf_scene.root_nodes = <<0, 1>>
    /\ gltf_scene.nodes[0].children = <<2>>
    /\ gltf_scene.nodes[0].matrix = ShearX
    /\ gltf_scene.nodes[1].matrix = Null
    /\ gltf_scene.nodes[2].matrix = ShearY
    /\ \A n \in DOMAIN gltf_scene.nodes : gltf_scene.nodes[n].mesh # Null
    /\ Len(builder.primitives) = 6
    /\ builder.primitives[3].transform = <<2, 1, 1, 1>>
    /\ builder.primitives[5].transform = Identity

\* the part of the base URI up to and including its last '/'
BasePrefixes(base) ==
    { pre \in { SubSeq(base, 1, n) : n \in 0..Len(base) } :
        /\ pre = <<>> \/ pre[Len(pre)] = "/"
        /\ \A k \in (Len(pre) + 1)..Len(base) : base[k] # "/" }

\* the URI starts with "data:", or with a scheme (a lower-case letter, then
\* letters, digits, '-', '+', '.') followed by "://"
IsDataUri(uri) == Len(uri) >= 5 /\ SubSeq(uri, 1, 5) = <<"d", "a", "t", "a", ":">>
IsAbsoluteUri(uri) ==
    \E n \in 1..Len(uri) :
        /\ n + 3 <= Len(uri)
        /\ SubSeq(uri, n + 1, n + 3) = <<":", "/", "/">>
        /\ uri[1] \in LowerCase
        /\ \A k \in 2..n : uri[k] \in LowerCase \cup Digits \cup {"-", "+", "."}

\* C25: the resolver returns a data URI or an absolute URI as it is,
\* whatever the base URI, and any other URI behind the base URI cut after
\* its last '/' (behind nothing when the base URI has no '/').
C25_ResolverRule ==
    request_uri.made =>
        IF IsDataUri(resource_uri.uri) \/ IsAbsoluteUri(resource_uri.uri)
        THEN request_uri.uri = resource_uri.uri
        ELSE \E pre \in BasePrefixes(resource_uri.base_uri) :
                request_uri.uri = pre \o resource_uri.uri

\* a relative URI was resolved against a base URI with two '/'
C25_Witness ==
    /\ request_uri.made
    /\ resource_uri.uri = <<"a", ":", "/">>
    /\ resource_uri.base_uri = <<"/", "a", "/">>
    /\ request_uri.uri = <<"/", "a", "/", "a", ":", "/">>

\* the counts of the attribute accessors of gltf.Primitive p
AttributeCounts(p) ==
    { GltfPrimitive(p).attributes[k].accessor.count
      : k \in DOMAIN GltfPrimitive(p).attributes }

\* C26: the vertex count of every emitted primitive is the count of one of
\* its attribute accessors and is not above the count of any of them.
C26_VertexCountIsMinimum ==
    builder.made =>
        \A k \in DOMAIN builder.primitives :
            LET oprim == builder.primitives[k]
            IN  /\ oprim.mesh.num_vertices \in AttributeCounts(oprim.iprim)
                /\ \A count \in AttributeCounts(oprim.iprim) :
                      oprim.mesh.num_vertices <= count

\* a primitive was emitted whose first attribute has more elements than its
\* second
C26_Witness ==
    /\ builder.made
    /\ \E k \in DOMAIN builder.primitives :
          /\ builder.primitives[k].iprim = 1
          /\ GltfPrimitive(1).attributes[1].accessor.count = 2
          /\ GltfPrimitive(1).attributes[2].accessor.count = 1
          /\ builder.primitives[k].mesh.num_vertices = 1

\* the POSITION accessor of gltf.Primitive p, if it has one
PositionAccessor(p) ==
    { GltfPrimitive(p).attributes[k].accessor
      : k \in { j \in DOMAIN GltfPrimitive(p).attributes :
                  GltfPrimitive(p).attributes[j].name = "POSITION" } }

\* C27: an emitted primitive whose POSITION accessor has both min and max
\* has the box <<min, max>> and their component-wise midpoint as pivot;
\* every other emitted primitive has neither a box nor a pivot.
C27_BoxAndPivot ==
    builder.made =>
        \A k \in DOMAIN builder.primitives :
            LET oprim == builder.primitives[k]
            IN  IF \E accessor \in PositionAccessor(oprim.iprim) :
                      /\ AccessorMin(accessor.index) # Null
                      /\ AccessorMax(accessor.index) # Null
                THEN \E accessor \in PositionAccessor(oprim.iprim) :
                        /\ oprim.bbox = << AccessorMin(accessor.index),
                                           AccessorMax(accessor.index) >>
                        /\ Len(oprim.pivot) = 3
                        /\ \A i \in 1..3 :
                              2 * oprim.pivot[i] = AccessorMin(accessor.index)[i]
                                                   + AccessorMax(accessor.index)[i]
                ELSE oprim.bbox = Null /\ oprim.pivot = Null

\* primitives were emitted with a box, with a POSITION accessor that lacks
\* max, with one that lacks min, and without a POSITION accessor
C27_Witness ==
    /\ builder.made
    /\ \E k \in DOMAIN builder.primitives :
          /\ builder.primitives[k].iprim = 0
          /\ builder.primitives[k].bbox = << <<0, 0, 0>>, <<2, 4, 6>> >>
          /\ builder.primitives[k].pivot = <<1, 2, 3>>
    /\ \E k \in DOMAIN builder.primitives :
          /\ builder.primitives[k].iprim = 1
          /\ builder.primitives[k].bbox = Null
    /\ \E k \in DOMAIN builder.primitives :
          /\ builder.primitives[k].iprim = 2
          /\ builder.primitives[k].pivot = Null
    /\ \E k \in DOMAIN builder.primitives : builder.primitives[k].iprim = 3

\* C28: the Content carries gjson.scene as default_scene_index, and -1 when
\* gjson.scene is not a number; the consumer uses the index of the entity
\* if it is a number and the default_scene_index of the Content otherwise,
\* and scene 0 when the value so chosen is negative; with a Content without
\* scenes it builds nothing and fails with nothing.
C28_DefaultSceneIndex ==
    /\ content.made =>
          content.default_scene_index
             = (IF gjson_scene = Undefined THEN 0 - 1 ELSE gjson_scene[1])
    /\ entity.state \in {"built", "TypeError"} =>
          LET si1 == IF entity.index = Undefined
                     THEN content.default_scene_index
                     ELSE entity.index[1]
          IN  entity.scene = (IF si1 < 0 THEN 0 ELSE si1)
    /\ (entity.state # "loading" /\ Len(content.scenes) = 0) =>
          (entity.state = "no_scene" /\ entity.primitives = <<>>)

\* an entity without an index has built scene 0 of a Content whose
\* default_scene_index is -1
C28_Witness ==
    /\ entity.state = "built"
    /\ entity.index = Undefined
    /\ content.made
    /\ content.default_scene_index = 0 - 1
    /\ entity.scene = 0
    /\ entity.primitives = content.scenes[1]

\* the indices of the Accessor instances of a list, in the order of the list
AccessorIndices(list) == [k \in 1..Len(list) |-> list[k].index]

\* C29: once the body has finished, no step registers anything and no step
\* starts a fetch: the indices that have a BufferEntry or an ImageEntry stay
\* the same, the Accessor lists and the TextureInfo lists of the entries
\* keep their members in their order, the number of fetches started so far
\* (the pending ones and the finished ones) stays the same, and the pending
\* counter does not grow.
C29_NothingStartsAfterBodyFinish ==
    [][ body_finished =>
          /\ DOMAIN buffer_entries' = DOMAIN buffer_entries
          /\ DOMAIN image_entries' = DOMAIN image_entries
          /\ \A i \in DOMAIN buffer_entries :
                /\ AccessorIndices(buffer_entries'[i].attrib_accessors)
                      = AccessorIndices(buffer_entries[i].attrib_accessors)
                /\ AccessorIndices(buffer_entries'[i].index_accessors)
                      = AccessorIndices(buffer_entries[i].index_accessors)
          /\ \A i \in DOMAIN image_entries :
                image_entries'[i].texinfo_objects = image_entries[i].texinfo_objects
          /\ load_count' + NumFinished' = load_count + NumFinished
          /\ load_count' <= load_count
      ]_vars

\* the body has finished with an Accessor and a TextureInfo registered, one
\* fetch has completed since and another one is pending
C29_Witness ==
    /\ body_finished
    /\ load_count > 0
    /\ NumFinished > 0
    /\ \E i \in DOMAIN buffer_entries :
          buffer_entries[i].attrib_accessors # <<>>
             \/ buffer_entries[i].index_accessors # <<>>
    /\ \E i \in DOMAIN image_entries : image_entries[i].texinfo_objects # <<>>

\* C30: addAccessor( accessor, usage ) appends the accessor to the end of
\* the ATTRIBUTE list (usage "ATTRIBUTE") or of the INDEX list (usage
\* "INDEX") of the BufferEntry of the buffer of the accessor and leaves
\* the other list of that entry, what else the entry holds, and every
\* other entry as they were; with any other usage it changes nothing.
C30_AppendsToOneList ==
    registration.made =>
       LET accessor == registration.accessor
           usage    == registration.usage
           old      == registration.before
           b        == accessor.buffer_view.buffer.index
       IN  /\ DOMAIN buffer_entries = DOMAIN old
           /\ \A i \in DOMAIN old \ {b} : buffer_entries[i] = old[i]
           /\ buffer_entries[b].status = old[b].status
           /\ buffer_entries[b].binary = old[b].binary
           /\ buffer_entries[b].attrib_accessors
                = (IF usage = "ATTRIBUTE"
                   THEN old[b].attrib_accessors \o << accessor >>
                   ELSE old[b].attrib_accessors)
           /\ buffer_entries[b].index_accessors
                = (IF usage = "INDEX"
                   THEN old[b].index_accessors \o << accessor >>
                   ELSE old[b].index_accessors)
           /\ usage \notin {"ATTRIBUTE", "INDEX"} => buffer_entries = old

\* a call with another usage has found an entry with both lists filled,
\* next to a second entry, and has registered nothing
C30_Witness ==
    /\ registration.made
    /\ registration.usage = "OTHER"
    /\ LET b == registration.accessor.buffer_view.buffer.index
       IN  /\ Len(registration.before[b].attrib_accessors) = 2
           /\ registration.before[b].index_accessors # <<>>
           /\ buffer_entries[b].attrib_accessors[1].index
                 # buffer_entries[b].attrib_accessors[2].index
           /\ DOMAIN buffer_entries # {b}

\* the Accessor instances of the entry of buffer i, in the order of their
\* ids: the ATTRIBUTE list followed by the INDEX list
United(i) == buffer_entries[i].attrib_accessors \o buffer_entries[i].index_accessors

\* the ids of the instances that have received call op, in call order
CalledIds(op) ==
    LET calls == SelectSeq(trace, LAMBDA e : e[1] = op)
    IN  [k \in 1..Len(calls) |-> calls[k][2]]

\* C31: the endian rewrite processes one Accessor instance per distinct
\* index registered with the entry: the instance registered first among
\* those of its index, where the ATTRIBUTE registrations come before the
\* INDEX registrations; the instances are processed in the order of their
\* first registration.
C31_FirstInstancePerIndex ==
    RewritesDone(0) = 1 =>
       LET ids == CalledIds("modifyByteOrder")
           u   == United(0)
       IN  /\ \A k \in 1..Len(ids) : ids[k] \in 1..Len(u)
           /\ \A j \in 1..Len(u) :
                 Cardinality({k \in 1..Len(ids) : u[ids[k]].index = u[j].index}) = 1
           /\ \A k \in 1..Len(ids) :
                 \A j \in 1..Len(u) : u[j].index = u[ids[k]].index => ids[k] <= j
           /\ \A j, k \in 1..Len(ids) : j < k => ids[j] < ids[k]

\* an index registered twice as ATTRIBUTE and once as INDEX was processed
\* through its first ATTRIBUTE registration only
C31_Witness ==
    /\ RewritesDone(0) = 1
    /\ Len(buffer_entries[0].attrib_accessors) = 2
    /\ Len(buffer_entries[0].index_accessors) = 1
    /\ \A k \in 1..3 : United(0)[k].index = 0
    /\ CalledIds("modifyByteOrder") = << 1 >>

\* the calls made on the splitters, in order
SplitterOps == {"new BufferSplitter", "update", "close", "rebuildAccessor"}
SplitterLog == SelectSeq(trace, LAMBDA e : e[1] \in SplitterOps)

\* the positions of the log at which a splitter is made
SplitterStarts == {p \in 1..Len(SplitterLog) : SplitterLog[p][1] = "new BufferSplitter"}

\* the calls seg made on one splitter are a pass over the list accessors:
\* every distinct index of the list is passed to update exactly once, then
\* the splitter is closed, then every instance of the list is rebuilt
IsPassOver(seg, accessors) ==
    LET ops(op) == {p \in 1..Len(seg) : seg[p][1] = op}
    IN  /\ seg # <<>>
        /\ seg[1][1] = "new BufferSplitter"
        /\ Cardinality(ops("close")) = 1
        /\ \A p \in ops("update"), c \in ops("close") : p < c
        /\ \A p \in ops("rebuildAccessor"), c \in ops("close") : c < p
        /\ \A p \in ops("update") :
              \E j \in 1..Len(accessors) : accessors[j].id = seg[p][2]
        /\ \A j \in 1..Len(accessors) :
              Cardinality({p \in ops("update") :
                             United(0)[seg[p][2]].index = accessors[j].index}) = 1
        /\ \A j \in 1..Len(accessors) :
              Cardinality({p \in ops("rebuildAccessor") :
                             seg[p][2] = accessors[j].id}) = 1
        /\ Cardinality(ops("rebuildAccessor")) = Len(accessors)

\* the instances of a list that have the same index have the same layout
SameIndexSameLayout(accessors) ==
    \A j, k \in 1..Len(accessors) :
        accessors[j].index = accessors[k].index =>
            /\ accessors[j].buffer_view = accessors[k].buffer_view
            /\ accessors[j].byte_offset = accessors[k].byte_offset

\* C32: the split of an entry makes two splitters, the first for a pass
\* over the ATTRIBUTE list and the second for a pass over the INDEX list;
\* in a pass every distinct index of the list is fed to the splitter
\* exactly once, the splitter is closed before the first rebuild, and every
\* instance of the list is rebuilt; instances of one list with the same
\* index end with the same layout.
C32_TwoPassesFeedCloseRebuild ==
    SplitsDone(0) = 1 =>
       /\ Cardinality(SplitterStarts) = 2
       /\ \E p \in SplitterStarts :
             /\ p > 1
             /\ IsPassOver(SubSeq(SplitterLog, 1, p - 1),
                           buffer_entries[0].attrib_accessors)
             /\ IsPassOver(SubSeq(SplitterLog, p, Len(SplitterLog)),
                           buffer_entries[0].index_accessors)
       /\ SameIndexSameLayout(buffer_entries[0].attrib_accessors)
       /\ SameIndexSameLayout(buffer_entries[0].index_accessors)

\* the entry was split with an index registered twice as ATTRIBUTE and once
\* as INDEX: it was fed once to each splitter and rebuilt three times
C32_Witness ==
    /\ SplitsDone(0) = 1
    /\ Len(buffer_entries[0].attrib_accessors) = 2
    /\ Len(buffer_entries[0].index_accessors) = 1
    /\ \A k \in 1..3 : United(0)[k].index = 0
    /\ CalledIds("update") = << 1, 3 >>
    /\ CalledIds("rebuildAccessor") = << 1, 2, 3 >>
    /\ buffer_entries[0].attrib_accessors[1].buffer_view.buffer.usage = "ATTRIBUTE"
    /\ buffer_entries[0].index_accessors[1].buffer_view.buffer.usage = "INDEX"

\* the indices of the entries stage op was called on, in call order
StageIndices(op) ==
    LET calls == SelectSeq(trace, LAMBDA e : e[1] = op)
    IN  [k \in 1..Len(calls) |-> calls[k][2]]

\* sequence s lists the members of set S in ascending order
IsAscendingListOf(s, S) ==
    /\ \A j, k \in 1..Len(s) : j < k => s[j] < s[k]
    /\ {s[k] : k \in 1..Len(s)} = S

\* C33: when the stages have run, each stage was called on the entries in
\* ascending order of their buffer (image) index, on every index that has
\* an entry and on no other index, whatever the order in which the entries
\* were made and in which their fetches completed.
C33_StagesInIndexOrder ==
    StageCalls(trace) # <<>> =>
       /\ IsAscendingListOf(StageIndices("rewrite"), DOMAIN buffer_entries)
       /\ IsAscendingListOf(StageIndices("split"), DOMAIN buffer_entries)
       /\ IsAscendingListOf(StageIndices("dedupe"), DOMAIN image_entries)

\* the stages have run over two buffers, and over the last image only: the
\* first image was never referenced
C33_Witness ==
    /\ StageIndices("rewrite") = << 0, NumBuffers - 1 >>
    /\ StageIndices("split") = << 0, NumBuffers - 1 >>
    /\ StageIndices("dedupe") = << NumImages - 1 >>
    /\ 0 \notin DOMAIN image_entries

\* the entry TextureInfo k is registered with, and its position in the list
\* of that entry
EntryOf(k) ==
    CHOOSE i \in DOMAIN image_entries :
        \E p \in 1..Len(image_entries[i].texinfo_objects) :
            image_entries[i].texinfo_objects[p] = k
PositionOf(k) ==
    CHOOSE p \in 1..Len(image_entries[EntryOf(k)].texinfo_objects) :
        image_entries[EntryOf(k)].texinfo_objects[p] = k

\* C34: a call of rebuildTextureInfo changes nothing but the texture field
\* of the TextureInfos after the first one of its entry: texCoord, scale and
\* strength of every TextureInfo stay, the first TextureInfo of every entry
\* and the only TextureInfo of an entry keep their texture, the entries
\* themselves stay, a texture field is assigned at most once per call on
\* its entry and only to the texture of the first TextureInfo, and a second
\* call on an entry changes nothing.
C34_DedupeChangesOnlyLaterTextures ==
    [][ /\ image_entries' = image_entries
        /\ DOMAIN texinfo_texture' = DOMAIN texinfo_texture
        /\ \A k \in DOMAIN texinfo_texture :
              /\ texinfo_texture'[k].texCoord = texinfo_texture[k].texCoord
              /\ texinfo_texture'[k].scale = texinfo_texture[k].scale
              /\ texinfo_texture'[k].strength = texinfo_texture[k].strength
              /\ PositionOf(k) = 1 =>
                    /\ texinfo_texture'[k].texture = texinfo_texture[k].texture
                    /\ Occurrences(trace', Event("texture", k)) = 0
              /\ texinfo_texture'[k].texture # texinfo_texture[k].texture =>
                    /\ Occurrences(trace, Event("dedupe", EntryOf(k))) = 0
                    /\ texinfo_texture'[k].texture
                          = texinfo_texture[
                               image_entries[EntryOf(k)].texinfo_objects[1]].texture
              /\ Occurrences(trace', Event("texture", k))
                    <= Occurrences(trace', Event("dedupe", EntryOf(k)))
      ]_vars

\* an entry with two TextureInfos of different textures and an entry with
\* one TextureInfo have both been rebuilt twice
C34_Witness ==
    /\ Len(texinfo_texture) = 3
    /\ \E i, j \in DOMAIN image_entries :
          /\ image_entries[i].texinfo_objects = << 1, 3 >>
          /\ image_entries[j].texinfo_objects = << 2 >>
          /\ Occurrences(trace, Event("dedupe", i)) = 2
          /\ Occurrences(trace, Event("dedupe", j)) = 2
    /\ texinfo_texture[1].texture.index # texinfo_texture[2].texture.index
    /\ texinfo_texture[3].texture = texinfo_texture[1].texture
    /\ texinfo_texture[3].scale # texinfo_texture[1].scale
    /\ texinfo_texture[2].texture.id = 2
    /\ Occurrences(trace, Event("texture", 3)) = 2

\* the entries whose fetch reports failure in the step
NewlyFailedBuffers ==
    {i \in DOMAIN buffer_entries :
        buffer_entries[i].status = "loading" /\ buffer_entries'[i].status = "failed"}
NewlyFailedImages ==
    {i \in DOMAIN image_entries :
        image_entries[i].status = "loading" /\ image_entries'[i].status = "failed"}

\* C35: the failure flag is false at first, becomes true in the step in
\* which a fetch reports failure and in no other step, and once true it
\* stays true: no successful completion, body finish or settlement resets
\* it.
C35_FailureFlagMonotonic ==
    /\ ~load_failed
    /\ [][ /\ load_failed => load_failed'
           /\ load_failed' =
                 (load_failed \/ NewlyFailedBuffers # {} \/ NewlyFailedImages # {})
       ]_vars

\* the flag is set at the end of a load in which a buffer failed and, other
\* fetches succeeded, an image among them
C35_Witness ==
    /\ load_failed
    /\ body_finished
    /\ load_count = 0
    /\ BuffersIn("failed") # {}
    /\ BuffersIn("loaded") # {}
    /\ ImagesIn("loaded") # {}
    /\ ImagesIn("failed") = {}

\* the body parse of the callback loader was left by an exception of an
\* entity constructor
BodyParseAborted ==
    variant = "callback" /\ pc = "thrown" /\ thrown = "malformed"

\* C36: after an exception has left the body parse of the callback loader
\* the body flag is never set, the finish callback is never called and no
\* stage runs; the fetches started before the exception still report, and
\* the pending counter comes back to 0.
C36_AbortedParseNeverSettles ==
    /\ [](BodyParseAborted =>
             /\ ~body_finished
             /\ SettleCalls(trace) = <<>>
             /\ StageCalls(trace) = <<>>)
    /\ BodyParseAborted ~> (BodyParseAborted /\ load_count = 0)

\* three fetches were started before the exception and all have reported
C36_Witness ==
    /\ BodyParseAborted
    /\ load_count = 0
    /\ NumFinished = 3
    /\ ~body_finished
    /\ trace = <<>>

\* C37: the loader the finish callback of the callback loader is given
\* exposes in root_nodes the nodes of the selected scene, in the order of
\* the nodes array of that scene, whether the callback is called by a fetch
\* completion or inside the constructor.
C37_CallbackSeesRootNodes ==
    callback_loader.called =>
       /\ variant = "callback"
       /\ SceneExists(sel_scene, num_scenes)
       /\ callback_loader.root_nodes = SceneNodes(sel_scene)
       /\ root_nodes = callback_loader.root_nodes

\* the callback was called inside the constructor: no fetch was started
C37_Witness ==
    /\ callback_loader.called
    /\ buffer_entries = <<>>
    /\ image_entries = <<>>
    /\ Len(callback_loader.root_nodes) = 2
    /\ trace = << Event("callback_ok", NoIdx) >>

\* C38: the primitive list and the matrix list of a ModelEntity have the
\* same length at all times; the matrices are the transforms the Builder
\* gave the primitives, whatever was called since; setTransform leaves the
\* primitives alone, and a call of getPrimitives leaves every primitive
\* with the product of the entity transform and its matrix of load time,
\* as the call before it did.
C38_TransformNeverCompounds ==
    /\ [](/\ Len(entity.primitives) = Len(entity.ptoe_array)
          /\ entity.state = "built" =>
                /\ Len(entity.ptoe_array) = Len(builder.primitives)
                /\ \A i \in DOMAIN entity.ptoe_array :
                      entity.ptoe_array[i] = builder.primitives[i].transform)
    /\ [][ (entity.state = "built" /\ entity'.state = "built") =>
              IF entity'.transform = entity.transform
              THEN \A i \in DOMAIN entity'.primitives :
                      entity'.primitives[i].transform
                         = MulAA(entity.transform, builder.primitives[i].transform)
              ELSE entity'.primitives = entity.primitives
       ]_vars

\* the second primitive is under a node with a matrix; the entity
\* transform was set to that matrix and the primitives were got with it:
\* the product holds the entity transform once
C38_Witness ==
    /\ entity.state = "built"
    /\ Len(entity.primitives) >= 2
    /\ entity.transform = ShearX
    /\ entity.ptoe_array[2] = ShearX
    /\ entity.primitives[2].transform = MulAA(ShearX, ShearX)
    /\ entity.primitives[1].transform = MulAA(ShearX, entity.ptoe_array[1])

====
